---- MODULE Spec2Model ----
(***************************************************************************)
(* Model of the economic-calendar acquisition pipeline of main.py:         *)
(* FreeProxyRotator, fetch_with_retry, the calendar cache with its         *)
(* persistence, the /calendar handler and the background prefetch thread.  *)
(*                                                                         *)
(* Specifications over one set of variables:                               *)
(*   SpecFetch    fetch_with_retry driving the proxy rotator;              *)
(*   SpecRotator  the rotator under a moving clock;                        *)
(*   Spec         the cache, get_calendar, background_prefetch, load/save; *)
(*   SpecRange    get_calendar_range over the five scrapers;               *)
(*   SpecLoad     load_cache at startup over files of every kind;          *)
(*   SpecPrefetch background_prefetch with cycles that fail;               *)
(*   SpecThreads  get_calendar's cache walk beside the prefetch thread;    *)
(*   SpecParse    the TradingEconomics row loop on tables of every shape;  *)
(*   SpecAcquire  get_next_proxy over fetch after fetch;                   *)
(*   SpecPure     the scrapers beside a moving clock, cache and rotator;   *)
(*   SpecResolve  the effective range of get_calendar;                     *)
(*   SpecServe    get_calendar on a cache filled by earlier requests;      *)
(*   SpecImpact   the impact of TradingEconomics rows by their category;   *)
(*   SpecPersist  save_cache step by step in both threads;                 *)
(*   SpecNavigate navigate_calendar over get_calendar_range.               *)
(***************************************************************************)
EXTENDS Integers, Sequences, FiniteSets, TLC

VARIABLES
    now,            \* time.time(), in seconds since midnight of day StartDay
    ticks,          \* number of clock advances taken so far (bounded)
    proxy_rotator,  \* the FreeProxyRotator instance (main.py:129)
    fetch,          \* the frame of the running fetch_with_retry call
    CACHE,          \* main.py:149, a dict in insertion order
    CACHE_FILE,     \* content of calendar_cache.json
    fg,             \* the /calendar handler (get_calendar) in progress
    pf,             \* the background_prefetch thread
    rg,             \* the /calendar/range handler (get_calendar_range) in progress
    lk,             \* get_calendar's walk over CACHE.items(), entry by entry
    sv              \* the save_cache call of each thread, step by step

vars == <<now, ticks, proxy_rotator, fetch, CACHE, CACHE_FILE, fg, pf, rg, lk, sv>>

\* A save_cache call (main.py:157-171): not running, walking CACHE.items()
\* (the size the dict had when the walk began, the entries read so far, what
\* has been serialized), the file open for writing, or over.
SaverInit ==
    [pc |-> "idle", used |-> 0, i |-> 0, serializable_cache |-> <<>>,
     overlapped |-> FALSE, failed |-> FALSE]
SvInit == [fg |-> SaverInit, pf |-> SaverInit]

(***************************************************************************)
(* Optional values: None is the empty tuple, a present value x is <<x>>.   *)
(***************************************************************************)
None == <<>>
Some(x) == <<x>>

(***************************************************************************)
(* Bounds of the model.                                                    *)
(***************************************************************************)
MaxTicks == 2       \* clock advances explored
MaxPool == 2        \* size of the largest proxy list a provider returns
MaxDepth == 3       \* recursion depth of get_next_proxy explored
MaxEntries == 4     \* cache entries explored

(***************************************************************************)
(* The clock.  It moves in steps that hit the code's thresholds exactly:   *)
(* by CACHE_TTL (86400 s) where the cache is concerned, by fetch_interval  *)
(* (300 s) where the rotator is.                                           *)
(***************************************************************************)
fetch_interval == 300
CACHE_TTL == 86400
PrefetchSleep == 300
Deltas == {CACHE_TTL}

Tick(d) ==
    /\ ticks < MaxTicks
    /\ now' = now + d
    /\ ticks' = ticks + 1
    /\ UNCHANGED <<proxy_rotator, fetch, CACHE, CACHE_FILE, fg, pf, rg, lk, sv>>

(***************************************************************************)
(* FreeProxyRotator (main.py:24-127).                                      *)
(* proxies is the list, proxy_cycle the position itertools.cycle will      *)
(* yield next (0 when proxy_cycle is None), last_fetch_time None or a      *)
(* time, failed_proxies a set.                                             *)
(***************************************************************************)
ProxyIds == {"p1", "p2"}

RECURSIVE Distinct(_)
Distinct(s) ==
    IF Len(s) <= 1 THEN TRUE
    ELSE /\ \A i \in 2..Len(s) : s[i] # s[1]
         /\ Distinct(Tail(s))

\* What fetch_free_proxies can return: list(set(all_proxies)), any order,
\* possibly empty when every provider fails.
fetch_free_proxies ==
    {s \in UNION {[1..n -> ProxyIds] : n \in 0..MaxPool} : Distinct(s)}

RotatorInit ==
    [proxies |-> <<>>, proxy_cycle |-> 0, last_fetch_time |-> None,
     failed_proxies |-> {}]

\* The refresh condition of get_proxies (main.py:96-98).
RefreshDue_always(r, t) == TRUE
RefreshDue(r, t) ==
    \/ r.last_fetch_time = None
    \/ t - r.last_fetch_time[1] > fetch_interval
    \/ r.proxies = <<>>

\* get_proxies (main.py:91-105); pool is what fetch_free_proxies returns if called.
get_proxies(r, t, pool) ==
    IF RefreshDue(r, t)
    THEN [r EXCEPT !.proxies = pool,
                   !.last_fetch_time = Some(t),
                   !.proxy_cycle = IF pool # <<>> THEN 1 ELSE 0]
    ELSE r

\* next(self.proxy_cycle): the position after the one just yielded.
CycleAdvance_stay(r) == r.proxy_cycle
CycleAdvance(r) == (r.proxy_cycle % Len(r.proxies)) + 1

\* The for loop of get_next_proxy (main.py:115-118): up to k draws from the cycle.
RECURSIVE CycleScan(_, _)
CycleScan(r, k) ==
    IF k = 0 THEN [rot |-> r, found |-> None]
    ELSE LET proxy == r.proxies[r.proxy_cycle]
             r2 == [r EXCEPT !.proxy_cycle = CycleAdvance(r)]
         IN  IF proxy \notin r.failed_proxies
             THEN [rot |-> r2, found |-> Some(proxy)]
             ELSE CycleScan(r2, k - 1)

\* All failed, reset (main.py:121): the mutant forgets to clear the set.
ResetFailed_keep(r) == r
ResetFailed(r) == [r EXCEPT !.failed_proxies = {}]

\* One activation of get_next_proxy (main.py:107-122).  recurse = TRUE stands
\* for the tail call of line 122, which the caller of this operator re-enters.
\* The mutant calls itself again on an empty pool.
get_next_proxy_retry(r, t, pool) ==
    LET r1 == get_proxies(r, t, pool)
    IN  IF r1.proxy_cycle = 0
        THEN [rot |-> r1, ret |-> None, recurse |-> TRUE]
        ELSE LET sc == CycleScan(r1, Len(r1.proxies))
             IN  IF sc.found # None
                 THEN [rot |-> sc.rot, ret |-> sc.found, recurse |-> FALSE]
                 ELSE [rot |-> ResetFailed(sc.rot), ret |-> None, recurse |-> TRUE]
get_next_proxy(r, t, pool) ==
    LET r1 == get_proxies(r, t, pool)
    IN  IF r1.proxy_cycle = 0
        THEN [rot |-> r1, ret |-> None, recurse |-> FALSE]
        ELSE LET sc == CycleScan(r1, Len(r1.proxies))
             IN  IF sc.found # None
                 THEN [rot |-> sc.rot, ret |-> sc.found, recurse |-> FALSE]
                 ELSE [rot |-> ResetFailed(sc.rot), ret |-> None, recurse |-> TRUE]

\* mark_failed (main.py:124-127); proxy is None or Some(address).
mark_failed_skip(r, proxy) == r
mark_failed(r, proxy) ==
    IF proxy # None
    THEN [r EXCEPT !.failed_proxies = @ \cup {proxy[1]}]
    ELSE r

(***************************************************************************)
(* fetch_with_retry (main.py:247-303).                                     *)
(* An outcome of requests.get is a response (status, body length) or an    *)
(* exception.                                                              *)
(***************************************************************************)
MinBody == 500

Resp(s, l) == [exc |-> "", status |-> s, len |-> l]
Exc(kind) == [exc |-> kind, status |-> 0, len |-> 0]

Responses ==
    {Resp(200, MinBody + 1), Resp(200, MinBody), Resp(403, MinBody + 1),
     Resp(429, MinBody), Resp(500, MinBody + 1)}
DirectOutcomes == Responses \cup {Exc("Timeout")}
ProxiedOutcomes == Responses \cup {Exc("ProxyError")}

\* The success test of the proxied path (main.py:278).
ProxiedOk_ge(o) == o.status = 200 /\ o.len >= MinBody
ProxiedOk(o) == o.status = 200 /\ o.len > MinBody

\* The success test of the direct path (main.py:288).
DirectOk(o) == o.status = 200 /\ o.len > MinBody

\* The bare "except:" around the proxied request (main.py:281) catches all.
InnerExcept(kind) == TRUE

\* "except Exception" around the whole attempt (main.py:299).
OuterExcept_none(kind) == FALSE
OuterExcept(kind) == kind \in {"Timeout", "ConnectionError", "ProxyError"}

\* The wait after a failed direct request (main.py:292-297) or in the
\* handler (main.py:301): its kind and the factor applied to it.
Backoff_flat(o, attempt) ==
    IF o.exc # "" THEN [kind |-> "error", mult |-> 1]
    ELSE [kind |-> "short", mult |-> 1]
Backoff(o, attempt) ==
    IF o.exc # "" THEN [kind |-> "error", mult |-> 1]
    ELSE IF o.status \in {429, 403} THEN [kind |-> "rate", mult |-> attempt + 1]
    ELSE [kind |-> "short", mult |-> 1]

FetchInit ==
    [pc |-> "idle", max_retries |-> 0, use_proxy |-> TRUE, attempt |-> 0,
     proxy |-> None, depth |-> 0, reqs |-> <<>>, waits |-> <<>>,
     acquires |-> <<>>, result |-> None, raised |-> FALSE]

\* Top of the for loop (main.py:258, 272): where attempt number a starts.
UsesProxy_always(f, a) == f.use_proxy
UsesProxy(f, a) == f.use_proxy /\ a > 0

LoopTop_oneMore(f, a) ==
    IF a > f.max_retries
    THEN [f EXCEPT !.pc = "done", !.attempt = a, !.result = None, !.proxy = None]
    ELSE [f EXCEPT !.pc = IF UsesProxy(f, a) THEN "acquire" ELSE "direct",
                   !.attempt = a, !.proxy = None, !.depth = 0]
LoopTop(f, a) ==
    IF a >= f.max_retries
    THEN [f EXCEPT !.pc = "done", !.attempt = a, !.result = None, !.proxy = None]
    ELSE [f EXCEPT !.pc = IF UsesProxy(f, a) THEN "acquire" ELSE "direct",
                   !.attempt = a, !.proxy = None, !.depth = 0]

\* fetch_with_retry is called (every scraper calls it with the defaults
\* max_retries = 3, use_proxy = True).
FetchStart(n, up) ==
    /\ fetch.pc \in {"idle", "done"}
    /\ fetch' = LoopTop([FetchInit EXCEPT !.max_retries = n, !.use_proxy = up], 0)
    /\ UNCHANGED <<now, ticks, proxy_rotator, CACHE, CACHE_FILE, fg, pf, rg, lk, sv>>

\* proxy_rotator.get_next_proxy() at main.py:273, one activation per step.
GetNextProxy(pool) ==
    /\ fetch.pc = "acquire"
    /\ fetch.depth < MaxDepth
    /\ LET g == get_next_proxy(proxy_rotator, now, pool)
           call == [attempt |-> fetch.attempt + 1, depth |-> fetch.depth,
                    ret |-> g.ret, recurse |-> g.recurse,
                    pool |-> g.rot.proxies,
                    fetched |-> g.rot.last_fetch_time,
                    refreshed |-> RefreshDue(proxy_rotator, now),
                    failedBefore |-> proxy_rotator.failed_proxies,
                    failedAfter |-> g.rot.failed_proxies,
                    allFailed |-> /\ proxy_rotator.proxies # <<>>
                                  /\ \A i \in 1..Len(proxy_rotator.proxies) :
                                        proxy_rotator.proxies[i] \in proxy_rotator.failed_proxies]
       IN  /\ proxy_rotator' = g.rot
           /\ fetch' = [fetch EXCEPT
                  !.acquires = Append(@, call),
                  !.depth = IF g.recurse THEN @ + 1 ELSE @,
                  !.proxy = g.ret,
                  !.pc = IF g.recurse THEN "acquire"
                         ELSE IF g.ret # None THEN "proxied" ELSE "direct"]
    /\ UNCHANGED <<now, ticks, CACHE, CACHE_FILE, fg, pf, rg, lk, sv>>

\* The proxied request (main.py:276-282).
ProxiedRequest(o) ==
    /\ fetch.pc = "proxied"
    /\ LET req == [attempt |-> fetch.attempt + 1, via |-> fetch.proxy, out |-> o]
           f1 == [fetch EXCEPT !.reqs = Append(@, req)]
       IN  IF o.exc = "" /\ ProxiedOk(o)
           THEN /\ fetch' = [f1 EXCEPT !.pc = "done", !.result = Some(req)]
                /\ UNCHANGED proxy_rotator
           ELSE IF o.exc = "" \/ InnerExcept(o.exc)
           THEN /\ fetch' = [f1 EXCEPT !.pc = "direct"]
                /\ proxy_rotator' = mark_failed(proxy_rotator, fetch.proxy)
           ELSE /\ fetch' = [f1 EXCEPT !.pc = "done", !.raised = TRUE]
                /\ UNCHANGED proxy_rotator
    /\ UNCHANGED <<now, ticks, CACHE, CACHE_FILE, fg, pf, rg, lk, sv>>

\* The direct request and what follows it in the attempt (main.py:284-301).
DirectRequest(o) ==
    /\ fetch.pc = "direct"
    /\ LET req == [attempt |-> fetch.attempt + 1, via |-> None, out |-> o]
           f1 == [fetch EXCEPT !.reqs = Append(@, req)]
           b == Backoff(o, fetch.attempt)
           w == [attempt |-> fetch.attempt + 1, kind |-> b.kind, mult |-> b.mult]
       IN  IF o.exc = "" /\ DirectOk(o)
           THEN fetch' = [f1 EXCEPT !.pc = "done", !.result = Some(req)]
           ELSE IF o.exc = "" \/ OuterExcept(o.exc)
           THEN fetch' = LoopTop([f1 EXCEPT !.waits = Append(@, w)], fetch.attempt + 1)
           ELSE fetch' = [f1 EXCEPT !.pc = "done", !.raised = TRUE]
    /\ UNCHANGED <<now, ticks, proxy_rotator, CACHE, CACHE_FILE, fg, pf, rg, lk, sv>>

\* GET /proxy/status (main.py:835-844) calls get_proxies.
ProxyStatus(pool) ==
    /\ proxy_rotator' = get_proxies(proxy_rotator, now, pool)
    /\ UNCHANGED <<now, ticks, fetch, CACHE, CACHE_FILE, fg, pf, rg, lk, sv>>

\* The default of the max_retries parameter (main.py:247).
DefaultRetries == 3

(***************************************************************************)
(* Dates.  A day is an integer; day 0 is 2025-12-25, so the window the     *)
(* program looks at runs over the end of a year.  A '%Y-%m-%d' string is   *)
(* the tuple of its three zero-padded fields, and Python's string          *)
(* comparison of two such strings is the lexicographic order below.        *)
(***************************************************************************)
\* (datetime + timedelta(days = n)).strftime('%Y-%m-%d'), -24 <= n <= 37
strftime(n) ==
    IF n <= 6 THEN <<2025, 12, 25 + n>> ELSE <<2026, 1, n - 6>>

\* datetime.now() as a day number
Today(t) == t \div (24 * 3600)

\* The days the model's dates range over, and the day a '%Y-%m-%d' string
\* names (datetime.strptime).
CalendarDays == (0 - 7)..37
DayOf(date) == CHOOSE n \in CalendarDays : strftime(n) = date

\* a <= b on strings of the same fixed-width layout
StrLE(a, b) ==
    \/ a[1] < b[1]
    \/ a[1] = b[1] /\ a[2] < b[2]
    \/ a[1] = b[1] /\ a[2] = b[2] /\ a[3] <= b[3]

(***************************************************************************)
(* CalendarEvent (main.py:132-146): five required fields, nine optional.   *)
(***************************************************************************)
RequiredFields == {"source", "date", "time", "country", "event"}
OptionalFields ==
    {"actual", "previous", "consensus", "forecast", "impact", "currency",
     "category", "description", "event_id"}

CalendarEvent(source, date, time, country, event, opt) ==
    [source |-> source, date |-> date, time |-> time, country |-> country,
     event |-> event,
     actual |-> opt.actual, previous |-> opt.previous,
     consensus |-> opt.consensus, forecast |-> opt.forecast,
     impact |-> opt.impact, currency |-> opt.currency,
     category |-> opt.category, description |-> opt.description,
     event_id |-> opt.event_id]

\* the defaults of the optional fields
NoOpt == [f \in OptionalFields |-> None]

(***************************************************************************)
(* scrape_trading_economics (main.py:307-393).                             *)
(* A response is None (fetch_with_retry failed) or a page: whether the     *)
(* calendar table is there, and its rows.  A row is a date header          *)
(* (colspan cell with its text) or carries td cells, a data-category and   *)
(* a data-id.  A header text is the fields '%A %B %d %Y' would read, or    *)
(* some other text.                                                        *)
(***************************************************************************)
MonthNumber(B) == IF B = "December" THEN 12 ELSE IF B = "January" THEN 1 ELSE 0

\* datetime.strptime(clean_text, '%A %B %d %Y').strftime('%Y-%m-%d'):
\* None stands for ValueError.
ParseHeader(text) ==
    IF text.A \in {"Monday", "Tuesday", "Wednesday", "Thursday", "Friday",
                   "Saturday", "Sunday"} /\ MonthNumber(text.B) # 0
    THEN Some(<<text.Y, MonthNumber(text.B), text.d>>)
    ELSE None

\* A text is the sequence of its characters.  str.lower() (main.py:360).
UpperCase ==
    <<"A", "B", "C", "D", "E", "F", "G", "H", "I", "J", "K", "L", "M",
      "N", "O", "P", "Q", "R", "S", "T", "U", "V", "W", "X", "Y", "Z">>
LowerCase ==
    <<"a", "b", "c", "d", "e", "f", "g", "h", "i", "j", "k", "l", "m",
      "n", "o", "p", "q", "r", "s", "t", "u", "v", "w", "x", "y", "z">>
lower(chars) ==
    [i \in 1..Len(chars) |->
        IF \E k \in 1..26 : UpperCase[k] = chars[i]
        THEN LowerCase[CHOOSE k \in 1..26 : UpperCase[k] = chars[i]]
        ELSE chars[i]]

\* x in cat_lower: x occurs in cat_lower as a substring.
Contains(chars, x) ==
    \E i \in 0..(Len(chars) - Len(x)) : SubSeq(chars, i + 1, i + Len(x)) = x

\* The keyword lists of main.py:361 and 363.
HighWords ==
    {<<"r", "a", "t", "e">>, <<"i", "n", "f", "l", "a", "t", "i", "o", "n">>,
     <<"g", "d", "p">>, <<"p", "a", "y", "r", "o", "l", "l">>,
     <<"u", "n", "e", "m", "p", "l", "o", "y", "m", "e", "n", "t">>}
MediumWords ==
    {<<"b", "a", "l", "a", "n", "c", "e">>,
     <<"s", "p", "e", "n", "d", "i", "n", "g">>, <<"s", "a", "l", "e", "s">>,
     <<"c", "o", "n", "f", "i", "d", "e", "n", "c", "e">>, <<"p", "m", "i">>}

\* main.py:359-364, High tested first
calculated_impact_mediumFirst(category) ==
    LET cat_lower == lower(category.chars)
    IN  IF \E x \in MediumWords : Contains(cat_lower, x) THEN "Medium"
        ELSE IF \E x \in HighWords : Contains(cat_lower, x) THEN "High"
        ELSE "Low"
calculated_impact(category) ==
    LET cat_lower == lower(category.chars)
    IN  IF \E x \in HighWords : Contains(cat_lower, x) THEN "High"
        ELSE IF \E x \in MediumWords : Contains(cat_lower, x) THEN "Medium"
        ELSE "Low"

\* The event a data row yields (main.py:353-387).
TERowEvent(row, current_date_str) ==
    LET te_event_id ==
            IF row.data_id # ""
            THEN <<"TradingEconomics", row.data_id>>
            ELSE <<"TE", current_date_str, row.cells[3]>>
    IN  CalendarEvent("TradingEconomics", current_date_str, row.cells[1],
            row.cells[2], row.cells[3],
            [actual |-> Some(row.cells[4]),
             previous |-> IF Len(row.cells) > 4 THEN Some(row.cells[5]) ELSE None,
             consensus |-> IF Len(row.cells) > 5 THEN Some(row.cells[6]) ELSE None,
             forecast |-> IF Len(row.cells) > 6 THEN Some(row.cells[7]) ELSE None,
             impact |-> Some(calculated_impact(row.category)),
             currency |-> None,
             category |-> Some(row.category.text),
             description |-> Some(row.category.text),
             event_id |-> Some(te_event_id)])

\* The date cursor after a row (main.py:335-348): the date of a header that
\* parses; unchanged by any other row.
TECursor_discard(row, current_date_str) ==
    IF row.header = None THEN current_date_str
    ELSE IF ParseHeader(row.header[1]) # None THEN ParseHeader(row.header[1])[1]
    ELSE <<1970, 1, 1>>
TECursor(row, current_date_str) ==
    IF row.header # None /\ ParseHeader(row.header[1]) # None
    THEN ParseHeader(row.header[1])[1]
    ELSE current_date_str

\* The loop over the rows (main.py:331-387), from row i with the date cursor.
\* No statement of the loop body is inside a try of its own: when the
\* extraction of a row raises (row.raises), the loop is left and the
\* scraper's closing handler returns the events gathered before that row.
\* A row whose header parsed is done with ('continue'); a row whose header
\* did not parse goes on to the cells like any other row.
RECURSIVE TERows(_, _, _)
TERows(rows, i, current_date_str) ==
    IF i > Len(rows) THEN <<>>
    ELSE IF rows[i].raises THEN <<>>
    ELSE LET row == rows[i]
             parsed == IF row.header # None THEN ParseHeader(row.header[1]) ELSE None
             cursor == TECursor(row, current_date_str)
         IN  IF parsed # None
             THEN TERows(rows, i + 1, cursor)
             ELSE IF Len(row.cells) >= 4
             THEN <<TERowEvent(row, cursor)>> \o TERows(rows, i + 1, cursor)
             ELSE TERows(rows, i + 1, cursor)

\* BeautifulSoup(response.text, 'html.parser') raises ParserRejectedMarkup on
\* a body the parser rejects; a page says whether its body is such a one.
SoupRaises(response) == response # None /\ response[1].rejected

\* An exception leaves the row loop of scrape_trading_economics.
TERowRaises(response) ==
    /\ response # None
    /\ "table" \in DOMAIN response[1]
    /\ response[1].table
    /\ \E i \in 1..Len(response[1].rows) : response[1].rows[i].raises

\* The 'except Exception' that closes every scraper (main.py:390, 434, 492,
\* 530, 569): the events gathered so far are returned.
ScraperCatches_none(exc) == FALSE
ScraperCatches(exc) == TRUE

\* The scraper call raises into its caller.
ScraperRaises(response) ==
    \/ SoupRaises(response) /\ ~ScraperCatches("ParserRejectedMarkup")
    \/ TERowRaises(response) /\ ~ScraperCatches("Exception")

scrape_trading_economics_clock(date_from, date_to, country, response) ==
    IF response = None THEN <<>>
    ELSE IF response[1].rejected THEN <<>>
    ELSE IF ~response[1].table THEN <<>>
    ELSE TERows(response[1].rows, 1, strftime(Today(now)))
scrape_trading_economics(date_from, date_to, country, response) ==
    IF response = None THEN <<>>
    ELSE IF response[1].rejected THEN <<>>
    ELSE IF ~response[1].table THEN <<>>
    ELSE TERows(response[1].rows, 1, date_from)

(***************************************************************************)
(* scrape_investing_com (main.py:395-437).  The URL carries no date, so    *)
(* the page is the same whatever range is asked for.  A row has            *)
(* data-event-datetime ("date time") or not, and the ids of its value      *)
(* cells; row.find('td', {'id': 'eventActual_'}) finds only that exact id, *)
(* so a cell whose id merely contains 'eventActual' raises AttributeError  *)
(* and the row is skipped.                                                 *)
(***************************************************************************)
ValueKinds == {"eventActual", "eventForecast", "eventPrevious"}
ExactId(kind) ==
    IF kind = "eventActual" THEN "eventActual_"
    ELSE IF kind = "eventForecast" THEN "eventForecast_" ELSE "eventPrevious_"

\* row.value_ids[kind] is the set of ids of the row's cells containing kind
InvestingRowRaises(row) ==
    \E kind \in ValueKinds :
        row.value_ids[kind] # {} /\ ExactId(kind) \notin row.value_ids[kind]

InvestingValue(row, kind) ==
    IF row.value_ids[kind] # {} THEN Some(row.values[kind]) ELSE None

InvestingRowEvent(row, date_from) ==
    CalendarEvent("Investing.com",
        IF row.datetime # None THEN row.datetime[1].date ELSE date_from,
        row.time, row.country, row.event,
        [NoOpt EXCEPT
            !.actual = InvestingValue(row, "eventActual"),
            !.forecast = InvestingValue(row, "eventForecast"),
            !.previous = InvestingValue(row, "eventPrevious"),
            !.impact = Some(row.importance)])

RECURSIVE InvestingRows(_, _, _)
InvestingRows(rows, i, date_from) ==
    IF i > Len(rows) THEN <<>>
    ELSE IF InvestingRowRaises(rows[i])
    THEN InvestingRows(rows, i + 1, date_from)
    ELSE <<InvestingRowEvent(rows[i], date_from)>> \o InvestingRows(rows, i + 1, date_from)

scrape_investing_com(date_from, date_to, country, response) ==
    IF response = None THEN <<>>
    ELSE IF response[1].rejected THEN <<>>
    ELSE InvestingRows(response[1].rows, 1, date_from)

(***************************************************************************)
(* scrape_forexfactory (main.py:439-495).  A calendar__row has or lacks    *)
(* each classed cell; the date cell's span text moves the date cursor,     *)
(* which is the text as the site prints it.  The impact cell is found by   *)
(* its whole class string 'calendar__cell calendar__impact', so the second *)
(* class of a cell found is always 'calendar__impact'.                     *)
(***************************************************************************)
OrNA(cell) == IF cell # None THEN cell[1] ELSE "N/A"

FFRowEvent(row, current_date, date_from) ==
    CalendarEvent("ForexFactory",
        IF current_date # None /\ current_date[1] # "" THEN current_date[1]
        ELSE date_from,
        OrNA(row.time), OrNA(row.currency), row.event[1],
        [NoOpt EXCEPT
            !.currency = row.currency,
            !.impact = IF row.impact_cell THEN Some("calendar__impact") ELSE None,
            !.actual = row.actual,
            !.forecast = row.forecast,
            !.previous = row.previous])

RECURSIVE FFRows(_, _, _, _)
FFRows(rows, i, current_date, date_from) ==
    IF i > Len(rows) THEN <<>>
    ELSE LET cursor == IF rows[i].date_span # None THEN rows[i].date_span
                       ELSE current_date
         IN  IF rows[i].event # None
             THEN <<FFRowEvent(rows[i], cursor, date_from)>>
                      \o FFRows(rows, i + 1, cursor, date_from)
             ELSE FFRows(rows, i + 1, cursor, date_from)

scrape_forexfactory(date_from, date_to, response) ==
    IF response = None THEN <<>>
    ELSE IF response[1].rejected THEN <<>>
    ELSE FFRows(response[1].rows, 1, None, date_from)

(***************************************************************************)
(* scrape_fxstreet (main.py:497-533).  An item has or lacks each classed   *)
(* span; volatility is the class list of the volatility span.              *)
(***************************************************************************)
FXRowEvent(row, date_from) ==
    CalendarEvent("FXStreet", date_from,
        OrNA(row.time), OrNA(row.country), OrNA(row.title),
        [NoOpt EXCEPT
            !.impact = IF row.volatility # None
                       THEN Some(row.volatility[1][Len(row.volatility[1])])
                       ELSE None,
            !.actual = row.actual,
            !.forecast = row.consensus,
            !.previous = row.previous])

scrape_fxstreet(date_from, date_to, response) ==
    IF response = None THEN <<>>
    ELSE IF response[1].rejected THEN <<>>
    ELSE [i \in 1..Len(response[1].rows) |-> FXRowEvent(response[1].rows[i], date_from)]

(***************************************************************************)
(* scrape_marketwatch (main.py:535-572).  The rows are the tr elements of  *)
(* class element--intraday, or every tr when there is none; a row is the   *)
(* texts of its td cells.                                                  *)
(***************************************************************************)
MWRowEvent(cells, date_from) ==
    CalendarEvent("MarketWatch", date_from, cells[1], "US", cells[2],
        [NoOpt EXCEPT
            !.actual = Some(cells[3]),
            !.consensus = IF Len(cells) > 3 THEN Some(cells[4]) ELSE None,
            !.previous = IF Len(cells) > 4 THEN Some(cells[5]) ELSE None])

RECURSIVE MWRows(_, _, _)
MWRows(rows, i, date_from) ==
    IF i > Len(rows) THEN <<>>
    ELSE IF Len(rows[i]) >= 3
    THEN <<MWRowEvent(rows[i], date_from)>> \o MWRows(rows, i + 1, date_from)
    ELSE MWRows(rows, i + 1, date_from)

scrape_marketwatch(date_from, date_to, response) ==
    IF response = None THEN <<>>
    ELSE IF response[1].rejected THEN <<>>
    ELSE LET event_rows == IF response[1].intraday # <<>>
                           THEN response[1].intraday ELSE response[1].rows
         IN  MWRows(event_rows, 1, date_from)

(***************************************************************************)
(* The cache (main.py:149-196).  CACHE is a dict: a sequence of entries    *)
(* in insertion order with distinct keys.  The file is None (absent) or    *)
(* the JSON document: an object in key order whose values hold a number    *)
(* and a list of objects of JSON strings and nulls.                        *)
(***************************************************************************)
\* f"{effective_from}_{effective_to}_{country}_{sources}": None prints as "None"
cache_key(effective_from, effective_to, country, sources) ==
    <<effective_from, effective_to,
      IF country = None THEN "None" ELSE country[1], sources>>

KeyIndex(cache, key) ==
    IF \E i \in 1..Len(cache) : cache[i].key = key
    THEN CHOOSE i \in 1..Len(cache) : cache[i].key = key
    ELSE 0

\* CACHE[key] = (timestamp, events): in place for a known key, else at the end
CachePut_append(cache, key, timestamp, events) ==
    Append(cache, [key |-> key, timestamp |-> timestamp, events |-> events])
CachePut(cache, key, timestamp, events) ==
    LET entry == [key |-> key, timestamp |-> timestamp, events |-> events]
        i == KeyIndex(cache, key)
    IN  IF i = 0 THEN Append(cache, entry) ELSE [cache EXCEPT ![i] = entry]

\* event.dict() written by json.dump: None becomes null
JsonNull == <<"null">>
JsonString(x) == <<"string", x>>
EventToJson(e) ==
    [f \in RequiredFields \cup OptionalFields |->
        IF f \in RequiredFields THEN JsonString(e[f])
        ELSE IF e[f] = None THEN JsonNull ELSE JsonString(e[f][1])]

\* CalendarEvent(**e): a required field must hold a string
EventValid(j) == \A f \in RequiredFields : j[f][1] = "string"
EventFromJson(j) ==
    [f \in RequiredFields \cup OptionalFields |->
        IF f \in RequiredFields THEN j[f][2]
        ELSE IF j[f] = JsonNull THEN None ELSE Some(j[f][2])]

MapSeq(s, Op(_)) == [i \in 1..Len(s) |-> Op(s[i])]

\* save_cache (main.py:157-171): the file written, a JSON object.
save_cache(cache) ==
    Some([json |-> "object",
          entries |-> MapSeq(cache, LAMBDA c :
              [key |-> c.key,
               value |-> [timestamp |-> <<"number", c.timestamp>>,
                          events |-> MapSeq(c.events, EventToJson)]])])

\* The pruning test of load_cache (main.py:191).
Expired_ge(timestamp, current_time) == current_time - timestamp >= CACHE_TTL
Expired(timestamp, current_time) == current_time - timestamp > CACHE_TTL

\* The body of the try of load_cache (main.py:176-193) at startup, when
\* CACHE is {}: the new CACHE and the exception that ended the body, if
\* any.  A file is None (absent) or holds a text that is a JSON object
\* (json = "object", with its entries), no JSON at all, or another JSON
\* value; the "timestamp" of an entry is a number, a string, or absent.
\* CACHE is assigned once every entry has been read; the pruning follows.
LoadBody(file, current_time) ==
    IF file = None THEN [CACHE |-> <<>>, exc |-> None]
    ELSE IF file[1].json \in {"empty", "invalid"}
    THEN [CACHE |-> <<>>, exc |-> Some("JSONDecodeError")]
    ELSE IF file[1].json # "object"
    THEN [CACHE |-> <<>>, exc |-> Some("AttributeError")]
    ELSE LET data == file[1].entries
         IN  IF \E i \in 1..Len(data) :
                    \E k \in 1..Len(data[i].value.events) :
                        ~EventValid(data[i].value.events[k])
             THEN [CACHE |-> <<>>, exc |-> Some("ValidationError")]
             ELSE IF \E i \in 1..Len(data) : data[i].value.timestamp[1] = "absent"
             THEN [CACHE |-> <<>>, exc |-> Some("KeyError")]
             ELSE LET loaded_cache == MapSeq(data, LAMBDA o :
                          [key |-> o.key,
                           timestamp |-> IF o.value.timestamp[1] = "number"
                                         THEN o.value.timestamp[2]
                                         ELSE o.value.timestamp,
                           events |-> MapSeq(o.value.events, EventFromJson)])
                  IN  IF \E i \in 1..Len(data) : data[i].value.timestamp[1] # "number"
                      THEN [CACHE |-> loaded_cache, exc |-> Some("TypeError")]
                      ELSE [CACHE |-> SelectSeq(loaded_cache,
                                        LAMBDA c : ~Expired(c.timestamp, current_time)),
                            exc |-> None]

\* 'except Exception' of load_cache (main.py:195).
LoadCatches_none(exc) == FALSE
LoadCatches(exc) == TRUE

\* load_cache (main.py:173-196) at startup: the new CACHE.
load_cache(file, current_time) == LoadBody(file, current_time).CACHE

\* load_cache raises into startup_event.
LoadRaises(file, current_time) ==
    LET exc == LoadBody(file, current_time).exc
    IN  exc # None /\ ~LoadCatches(exc[1])

(***************************************************************************)
(* get_calendar (main.py:625-712).                                         *)
(***************************************************************************)
\* The effective range (main.py:643-670); the dates given are well-formed.
\* The mutant looks at the explicit range before the explicit date.
EffectiveRange_rangeFirst(date, date_from, date_to, period, t) ==
    LET today == Today(t)
    IN  IF date_from # None /\ date_to # None THEN <<date_from[1], date_to[1]>>
        ELSE IF date # None THEN <<date[1], date[1]>>
        ELSE IF period = "today" THEN <<strftime(today), strftime(today)>>
        ELSE IF period = "tomorrow" THEN <<strftime(today + 1), strftime(today + 1)>>
        ELSE IF period = "week" THEN <<strftime(today), strftime(today + 7)>>
        ELSE IF period = "month" THEN <<strftime(today), strftime(today + 30)>>
        ELSE <<strftime(today), strftime(today)>>
EffectiveRange(date, date_from, date_to, period, t) ==
    LET today == Today(t)
    IN  IF date # None THEN <<date[1], date[1]>>
        ELSE IF date_from # None /\ date_to # None THEN <<date_from[1], date_to[1]>>
        ELSE IF period = "today" THEN <<strftime(today), strftime(today)>>
        ELSE IF period = "tomorrow" THEN <<strftime(today + 1), strftime(today + 1)>>
        ELSE IF period = "week" THEN <<strftime(today), strftime(today + 7)>>
        ELSE IF period = "month" THEN <<strftime(today), strftime(today + 30)>>
        ELSE <<strftime(today), strftime(today)>>

\* The freshness test of the exact-key path (main.py:678).
ExactFresh_le(timestamp, t) == t - timestamp <= CACHE_TTL
ExactFresh(timestamp, t) == t - timestamp < CACHE_TTL

\* The freshness test of the scan (main.py:684).
ScanFresh_always(timestamp, t) == TRUE
ScanFresh(timestamp, t) == t - timestamp < CACHE_TTL

\* The filter of the scan (main.py:686-689).
InRange(e, effective_from, effective_to) ==
    StrLE(effective_from, e.date) /\ StrLE(e.date, effective_to)

Filtered(events, effective_from, effective_to) ==
    SelectSeq(events, LAMBDA e : InRange(e, effective_from, effective_to))

\* The scan over CACHE.items() (main.py:683-692) from entry i: the list
\* returned, or None when the loop ends without returning.
\* The mutant answers from the last entry that qualifies, not the first.
ScanFrom_last(cache, i, effective_from, effective_to, t) ==
    LET J == {j \in i..Len(cache) :
                 /\ ScanFresh(cache[j].timestamp, t)
                 /\ Filtered(cache[j].events, effective_from, effective_to) # <<>>}
    IN  IF J = {} THEN None
        ELSE Some(Filtered(cache[CHOOSE j \in J : \A l \in J : l <= j].events,
                           effective_from, effective_to))
RECURSIVE ScanFrom(_, _, _, _, _)
ScanFrom(cache, i, effective_from, effective_to, t) ==
    IF i > Len(cache) THEN None
    ELSE LET filtered == Filtered(cache[i].events, effective_from, effective_to)
         IN  IF ScanFresh(cache[i].timestamp, t) /\ cache[i].events # <<>>
                  /\ filtered # <<>>
             THEN Some(filtered)
             ELSE ScanFrom(cache, i + 1, effective_from, effective_to, t)

\* The two cache paths (main.py:672-692): which one answered, and with what.
\* The mutant has no scan.
CacheLookup_exactOnly(cache, key, effective_from, effective_to, t) ==
    LET i == KeyIndex(cache, key)
    IN  IF i # 0 /\ ExactFresh(cache[i].timestamp, t)
        THEN [status |-> "exact", events |-> cache[i].events]
        ELSE [status |-> "miss", events |-> <<>>]
CacheLookup(cache, key, effective_from, effective_to, t) ==
    LET i == KeyIndex(cache, key)
        scan == ScanFrom(cache, 1, effective_from, effective_to, t)
    IN  IF i # 0 /\ ExactFresh(cache[i].timestamp, t)
        THEN [status |-> "exact", events |-> cache[i].events]
        ELSE IF scan # None
        THEN [status |-> "overlap", events |-> scan[1]]
        ELSE [status |-> "miss", events |-> <<>>]

\* The fallback test of the live scrape (main.py:700).
NeedsFallback_always(live_data) == TRUE
NeedsFallback(live_data) == live_data = <<>>

\* The 'except Exception' of the live scrape (main.py:709).
LiveCatches(exc) == TRUE

\* The live scrape (main.py:697-703): the sources queried, in order, with
\* the page each was given and what each returned, live_data, and whether
\* an exception left a scraper.
LiveData(effective_from, effective_to, country, te, inv) ==
    LET first == scrape_trading_economics(effective_from, effective_to, country, te)
        second == scrape_investing_com(effective_from, effective_to, country, inv)
        q1 == [source |-> "TradingEconomics", page |-> te, events |-> first]
        q2 == [source |-> "Investing.com", page |-> inv, events |-> second]
    IN  IF ScraperRaises(te)
        THEN [queried |-> <<>>, live_data |-> <<>>, raised |-> TRUE]
        ELSE IF ~NeedsFallback(first)
        THEN [queried |-> <<q1>>, live_data |-> first, raised |-> FALSE]
        ELSE IF ScraperRaises(inv)
        THEN [queried |-> <<q1>>, live_data |-> first, raised |-> TRUE]
        ELSE [queried |-> <<q1, q2>>, live_data |-> first \o second,
              raised |-> FALSE]

FgInit ==
    [pc |-> "idle", effective_from |-> <<>>, effective_to |-> <<>>,
     country |-> None, key |-> <<>>, status |-> "", response |-> <<>>,
     queried |-> <<>>, error |-> None]

\* GET /calendar until it answers from the cache or starts the live scrape.
Request(date, date_from, date_to, period, country, sources) ==
    /\ fg.pc = "idle"
    /\ Len(CACHE) < MaxEntries
    /\ LET range == EffectiveRange(date, date_from, date_to, period, now)
           key == cache_key(range[1], range[2], country, sources)
           hit == CacheLookup(CACHE, key, range[1], range[2], now)
       IN  fg' = [pc |-> IF hit.status = "miss" THEN "scraping" ELSE "responded",
                  effective_from |-> range[1], effective_to |-> range[2],
                  country |-> country, key |-> key, status |-> hit.status,
                  response |-> hit.events, queried |-> <<>>, error |-> None]
    /\ UNCHANGED <<now, ticks, proxy_rotator, fetch, CACHE, CACHE_FILE, pf, rg, lk, sv>>

\* 'if live_data:' (main.py:704): a list is true when it is not empty.
Truthy_always(live_data) == TRUE
Truthy(live_data) == live_data # <<>>

\* The live scrape and what follows it (main.py:694-712); te and inv are
\* what fetch_with_retry returns for the two URLs.
LiveScrape(te, inv) ==
    /\ fg.pc = "scraping"
    /\ LET live == LiveData(fg.effective_from, fg.effective_to, fg.country, te, inv)
       IN  IF live.raised /\ ~LiveCatches("ParserRejectedMarkup")
           THEN /\ UNCHANGED <<CACHE, CACHE_FILE>>
                /\ fg' = [fg EXCEPT !.pc = "responded", !.status = "error",
                                    !.queried = live.queried,
                                    !.error = Some(500)]
           ELSE IF ~live.raised /\ Truthy(live.live_data)
           THEN /\ CACHE' = CachePut(CACHE, fg.key, now, live.live_data)
                /\ CACHE_FILE' = save_cache(CACHE')
                /\ fg' = [fg EXCEPT !.pc = "responded", !.status = "live",
                                    !.response = live.live_data,
                                    !.queried = live.queried]
           ELSE /\ UNCHANGED <<CACHE, CACHE_FILE>>
                /\ fg' = [fg EXCEPT !.pc = "responded", !.status = "empty",
                                    !.response = <<>>, !.queried = live.queried]
    /\ UNCHANGED <<now, ticks, proxy_rotator, fetch, pf, rg, lk, sv>>

\* The response has been sent; the handler is ready for the next request.
Respond ==
    /\ fg.pc = "responded"
    /\ fg' = FgInit
    /\ UNCHANGED <<now, ticks, proxy_rotator, fetch, CACHE, CACHE_FILE, pf, rg, lk, sv>>

(***************************************************************************)
(* get_calendar_range (main.py:727-755).  A date string is the tuple of    *)
(* its three fields when strptime(s, '%Y-%m-%d') accepts it, and a tuple   *)
(* of another length when it raises ValueError.                            *)
(***************************************************************************)
MaxRangeDays == 90

WellFormed(s) == Len(s) = 3

\* The checks of main.py:734-744: None, or the status of the HTTPException.
RangeCheck(start_date, end_date) ==
    IF ~WellFormed(start_date) \/ ~WellFormed(end_date) THEN Some(400)
    ELSE IF DayOf(end_date) < DayOf(start_date) THEN Some(400)
    ELSE IF DayOf(end_date) - DayOf(start_date) > MaxRangeDays THEN Some(400)
    ELSE None

\* The scrapers in the order of the calls (main.py:749-753).
BroadSources_swapped ==
    <<"Investing.com", "TradingEconomics", "ForexFactory", "FXStreet",
      "MarketWatch">>
BroadSources ==
    <<"TradingEconomics", "Investing.com", "ForexFactory", "FXStreet",
      "MarketWatch">>

Scrape(source, start_date, end_date, country, response) ==
    CASE source = "TradingEconomics" ->
             scrape_trading_economics(start_date, end_date, country, response)
      [] source = "Investing.com" ->
             scrape_investing_com(start_date, end_date, country, response)
      [] source = "ForexFactory" ->
             scrape_forexfactory(start_date, end_date, response)
      [] source = "FXStreet" ->
             scrape_fxstreet(start_date, end_date, response)
      [] source = "MarketWatch" ->
             scrape_marketwatch(start_date, end_date, response)

RgInit ==
    [pc |-> "idle", start_date |-> <<>>, end_date |-> <<>>, country |-> None,
     queried |-> <<>>, all_events |-> <<>>, error |-> None, nav |-> None]

\* GET /calendar/range up to the first scraper call.
RangeStart(start_date, end_date, country) ==
    /\ rg.pc = "idle"
    /\ LET refused == RangeCheck(start_date, end_date)
       IN  rg' = [RgInit EXCEPT
                     !.pc = IF refused # None THEN "responded" ELSE "scraping",
                     !.start_date = start_date, !.end_date = end_date,
                     !.country = country, !.error = refused]
    /\ UNCHANGED <<now, ticks, proxy_rotator, fetch, CACHE, CACHE_FILE, fg, pf, lk, sv>>

\* The next all_events.extend(scrape_...(...)) of main.py:749-753; response
\* is what fetch_with_retry returns inside the scraper.  Nothing catches an
\* exception that leaves a scraper: the request ends with a 500.
RangeScrape(response) ==
    /\ rg.pc = "scraping"
    /\ LET source == BroadSources[Len(rg.queried) + 1]
           events == Scrape(source, rg.start_date, rg.end_date, rg.country, response)
       IN  IF ScraperRaises(response)
           THEN rg' = [rg EXCEPT !.pc = "responded", !.error = Some(500)]
           ELSE rg' = [rg EXCEPT
                          !.queried = Append(@, [source |-> source,
                                                 page |-> response,
                                                 events |-> events]),
                          !.all_events = @ \o events,
                          !.pc = IF Len(rg.queried) + 1 = Len(BroadSources)
                                 THEN "responded" ELSE "scraping"]
    /\ UNCHANGED <<now, ticks, proxy_rotator, fetch, CACHE, CACHE_FILE, fg, pf, lk, sv>>

\* The response has been sent.
RangeRespond ==
    /\ rg.pc = "responded"
    /\ rg' = RgInit
    /\ UNCHANGED <<now, ticks, proxy_rotator, fetch, CACHE, CACHE_FILE, fg, pf, lk, sv>>

(***************************************************************************)
(* The cache lookup of get_calendar taken apart (main.py:672-692): the     *)
(* exact-key test, then one step per next() of the iterator over           *)
(* CACHE.items().  The iterator remembers the size the dict had when it    *)
(* was made and raises RuntimeError when next() finds another size.        *)
(***************************************************************************)
LkInit ==
    [pc |-> "idle", effective_from |-> <<>>, effective_to |-> <<>>,
     key |-> <<>>, i |-> 0, used |-> 0, status |-> "", response |-> <<>>,
     error |-> None, args |-> <<>>]

\* get_calendar up to iter(CACHE.items()) (main.py:636-683): the exact-key
\* path answers, or the iterator is made.
LookupStart(date, date_from, date_to, period, country, sources) ==
    /\ lk.pc = "idle"
    /\ LET range == EffectiveRange(date, date_from, date_to, period, now)
           key == cache_key(range[1], range[2], country, sources)
           i == KeyIndex(CACHE, key)
           lk1 == [LkInit EXCEPT !.effective_from = range[1],
                                 !.effective_to = range[2], !.key = key,
                                 !.args = [date |-> date, date_from |-> date_from,
                                           date_to |-> date_to, period |-> period]]
       IN  IF i # 0 /\ ExactFresh(CACHE[i].timestamp, now)
           THEN lk' = [lk1 EXCEPT !.pc = "responded", !.status = "exact",
                                  !.response = CACHE[i].events]
           ELSE lk' = [lk1 EXCEPT !.pc = "scanning", !.used = Len(CACHE)]
    /\ UNCHANGED <<now, ticks, proxy_rotator, fetch, CACHE, CACHE_FILE, fg, pf, rg, sv>>

\* One next() of the iterator and the loop body for the entry it yields
\* (main.py:683-692).  The RuntimeError of a dict that changed size is
\* raised outside any try: the request ends with a 500.
LookupNext ==
    /\ lk.pc = "scanning"
    /\ IF lk.used # Len(CACHE)
       THEN lk' = [lk EXCEPT !.pc = "responded", !.status = "error",
                             !.error = Some(500)]
       ELSE IF lk.i >= Len(CACHE)
       THEN lk' = [lk EXCEPT !.pc = "responded", !.status = "miss"]
       ELSE LET entry == CACHE[lk.i + 1]
                filtered == Filtered(entry.events, lk.effective_from, lk.effective_to)
            IN  IF ScanFresh(entry.timestamp, now) /\ entry.events # <<>>
                     /\ filtered # <<>>
                THEN lk' = [lk EXCEPT !.pc = "responded", !.status = "overlap",
                                      !.response = filtered]
                ELSE lk' = [lk EXCEPT !.i = @ + 1]
    /\ UNCHANGED <<now, ticks, proxy_rotator, fetch, CACHE, CACHE_FILE, fg, pf, rg, sv>>

\* The answer has been sent (after a miss, the live scrape has been done).
LookupRespond ==
    /\ lk.pc = "responded"
    /\ lk' = LkInit
    /\ UNCHANGED <<now, ticks, proxy_rotator, fetch, CACHE, CACHE_FILE, fg, pf, rg, sv>>

(***************************************************************************)
(* background_prefetch (main.py:198-235).                                  *)
(***************************************************************************)
StartupDelay == 5

\* wake: when the thread's sleep ends; state: "running", or "not_started"
\* when startup_event raised before it started the thread, or "dead" when
\* an exception left the loop.
PfInit ==
    [wake |-> StartupDelay, state |-> "running", k |-> 0, events |-> <<>>,
     history |-> <<>>, queried |-> <<>>]

\* The scrapers a cycle calls (main.py:213).
PrefetchSources_broad == BroadSources
PrefetchSources == <<"TradingEconomics">>

\* The sources a cycle has asked, each with the page its fetch returned (te
\* for TradingEconomics) and the events parsed from it.
PrefetchQueried(te, date_from, date_to) ==
    [n \in 1..Len(PrefetchSources) |->
        LET page == IF PrefetchSources[n] = "TradingEconomics" THEN te ELSE None
        IN  [source |-> PrefetchSources[n], page |-> page,
             events |-> Scrape(PrefetchSources[n], date_from, date_to, None, page)]]

\* The keys a cycle writes (main.py:217-221).
PrefetchKeys(today) ==
    <<cache_key(strftime(today - 7), strftime(today + 30), None, "all"),
      cache_key(strftime(today), strftime(today + 7), None, "all"),
      cache_key(strftime(today), strftime(today + 14), None, "all")>>

RECURSIVE PutAll(_, _, _, _, _)
PutAll(cache, keys, i, timestamp, events) ==
    IF i > Len(keys) THEN cache
    ELSE PutAll(CachePut(cache, keys[i], timestamp, events), keys, i + 1,
                timestamp, events)

\* 'except Exception' of save_cache (main.py:170) and of the loop body
\* (main.py:230).
SaveCatches(exc) == TRUE
CycleCatches_none(exc) == FALSE
CycleCatches(exc) == TRUE

\* What can go wrong in a cycle besides the scrape: nothing, the second
\* CACHE[key] = ... raising (MemoryError), or save_cache failing to open
\* the file (OSError).
CycleFaults == {"none", "write", "persist"}

\* One pass of the loop body, then time.sleep(300).  pf.history lists how
\* the cycles of this thread ended.
PrefetchCycle(te, fault) ==
    /\ pf.state = "running"
    /\ pf.k = 0
    /\ now >= pf.wake
    /\ Len(PutAll(CACHE, PrefetchKeys(Today(now)), 1, now, <<>>)) <= MaxEntries
    /\ LET today == Today(now)
           all_events == scrape_trading_economics(strftime(today - 7),
                             strftime(today + 30), None, te)
           keys == PrefetchKeys(today)
           exc == IF ScraperRaises(te) THEN Some("ParserRejectedMarkup")
                  ELSE IF all_events = <<>> THEN None
                  ELSE IF fault = "write" THEN Some("MemoryError")
                  ELSE IF fault = "persist" /\ ~SaveCatches("OSError")
                  THEN Some("OSError")
                  ELSE None
           written == IF ScraperRaises(te) \/ all_events = <<>> THEN 0
                      ELSE IF fault = "write" THEN 1 ELSE Len(keys)
           saved == exc = None /\ all_events # <<>> /\ fault # "persist"
       IN  /\ CACHE' = PutAll(CACHE, SubSeq(keys, 1, written), 1, now, all_events)
           /\ CACHE_FILE' = IF saved THEN save_cache(CACHE') ELSE CACHE_FILE
           /\ pf' = IF exc # None /\ ~CycleCatches(exc[1])
                    THEN [pf EXCEPT !.state = "dead",
                                    !.queried = PrefetchQueried(te,
                                        strftime(today - 7), strftime(today + 30)),
                                    !.history = Append(@, "raised")]
                    ELSE [pf EXCEPT
                             !.wake = now + PrefetchSleep,
                             !.queried = PrefetchQueried(te,
                                 strftime(today - 7), strftime(today + 30)),
                             !.history = Append(@,
                                 IF exc # None THEN "failed"
                                 ELSE IF all_events = <<>> THEN "empty"
                                 ELSE IF saved THEN "stored" ELSE "unsaved")]
    /\ UNCHANGED <<now, ticks, proxy_rotator, fetch, fg, rg, lk, sv>>

\* The cycle taken apart, as the thread runs it beside the handlers: the
\* scrape (main.py:205-215), one CACHE[key] = ... per step (222-223), then
\* save_cache and the sleep (225-235).  pf.k is the key to write next.
PrefetchScrape(te) ==
    /\ pf.state = "running"
    /\ pf.k = 0
    /\ now >= pf.wake
    /\ Len(PutAll(CACHE, PrefetchKeys(Today(now)), 1, now, <<>>)) <= MaxEntries
    /\ LET today == Today(now)
           all_events == scrape_trading_economics(strftime(today - 7),
                             strftime(today + 30), None, te)
           queried == PrefetchQueried(te, strftime(today - 7), strftime(today + 30))
       IN  IF all_events # <<>>
           THEN pf' = [pf EXCEPT !.k = 1, !.events = all_events,
                                 !.queried = queried]
           ELSE pf' = [pf EXCEPT !.wake = now + PrefetchSleep,
                                 !.queried = queried,
                                 !.history = Append(@, "empty")]
    /\ UNCHANGED <<now, ticks, proxy_rotator, fetch, CACHE, CACHE_FILE, fg, rg, lk, sv>>

PrefetchPut ==
    /\ pf.state = "running"
    /\ pf.k \in 1..Len(PrefetchKeys(Today(now)))
    /\ CACHE' = CachePut(CACHE, PrefetchKeys(Today(now))[pf.k], now, pf.events)
    /\ pf' = [pf EXCEPT !.k = @ + 1]
    /\ UNCHANGED <<now, ticks, proxy_rotator, fetch, CACHE_FILE, fg, rg, lk, sv>>

PrefetchSave ==
    /\ pf.state = "running"
    /\ pf.k > Len(PrefetchKeys(Today(now)))
    /\ CACHE_FILE' = save_cache(CACHE)
    /\ pf' = [pf EXCEPT !.k = 0, !.events = <<>>, !.wake = now + PrefetchSleep,
                        !.history = Append(@, "stored")]
    /\ UNCHANGED <<now, ticks, proxy_rotator, fetch, CACHE, fg, rg, lk, sv>>

\* The process is stopped and started again: startup_event (main.py:237-244)
\* loads the file into an empty CACHE and starts the prefetch thread.
Restart ==
    /\ CACHE' = load_cache(CACHE_FILE, now)
    /\ fg' = FgInit
    /\ pf' = [PfInit EXCEPT
                 !.wake = now + StartupDelay,
                 !.state = IF LoadRaises(CACHE_FILE, now) THEN "not_started"
                           ELSE "running"]
    /\ proxy_rotator' = RotatorInit
    /\ fetch' = FetchInit
    /\ rg' = RgInit
    /\ lk' = LkInit
    /\ sv' = SvInit
    /\ UNCHANGED <<now, ticks, CACHE_FILE>>

(***************************************************************************)
(* The upstream sites.  TradingEconomics is asked for d1..d2 and answers   *)
(* with events of that range under accurate date headers; the Investing    *)
(* page is the site's page of the current day.                             *)
(***************************************************************************)
HeaderText(n) ==
    [A |-> "Friday",
     B |-> IF strftime(n)[2] = 12 THEN "December" ELSE "January",
     d |-> strftime(n)[3], Y |-> strftime(n)[1]]

HeaderRow(n) ==
    [header |-> Some(HeaderText(n)), cells |-> <<>>,
     category |-> [text |-> "", chars |-> <<>>], data_id |-> "", raises |-> FALSE]

DataRow ==
    [header |-> None,
     cells |-> <<"08:30", "US", "Inflation Rate YoY", "3.0%", "3.1%", "3.0%", "3.0%">>,
     category |-> [text |-> "Inflation Rate",
                   chars |-> <<"I", "n", "f", "l", "a", "t", "i", "o", "n", " ", "R",
                             "a", "t", "e">>],
     data_id |-> "401", raises |-> FALSE]

\* The first and the last day of the range under their headers, one event each.
TEPage(d1, d2) ==
    LET first == DayOf(d1)
        last == DayOf(d2)
    IN  IF first > last THEN [rejected |-> FALSE, table |-> TRUE, rows |-> <<>>]
        ELSE IF first = last
        THEN [rejected |-> FALSE, table |-> TRUE,
              rows |-> <<HeaderRow(first), DataRow>>]
        ELSE [rejected |-> FALSE, table |-> TRUE,
              rows |-> <<HeaderRow(first), DataRow,
                         HeaderRow(last), [DataRow EXCEPT !.data_id = "404"]>>]

RejectedPage == [rejected |-> TRUE, table |-> FALSE, rows |-> <<>>]

TEResponses(d1, d2) ==
    {None, Some(RejectedPage),
     Some([rejected |-> FALSE, table |-> FALSE, rows |-> <<>>]),
     Some(TEPage(d1, d2))}

InvestingRow(n, ids) ==
    [datetime |-> Some([date |-> strftime(n), time |-> "08:30:00"]),
     time |-> "08:30", country |-> "USD", event |-> "CPI (YoY)",
     importance |-> "3",
     value_ids |-> [k \in ValueKinds |-> IF k = "eventActual" THEN ids ELSE {}],
     values |-> [k \in ValueKinds |-> "3.0%"]]

\* The page of the day: one event; a row whose value cell carries a real
\* id ('eventActual_401') between two rows without value cells; or that
\* row alone.
InvestingResponses(t) ==
    {None, Some(RejectedPage),
     Some([rejected |-> FALSE, rows |-> <<InvestingRow(Today(t), {})>>]),
     Some([rejected |-> FALSE,
           rows |-> <<InvestingRow(Today(t), {}),
                      InvestingRow(Today(t), {"eventActual_401"}),
                      InvestingRow(Today(t) + 1, {})>>]),
     Some([rejected |-> FALSE,
           rows |-> <<InvestingRow(Today(t), {"eventActual_401"})>>])}

(***************************************************************************)
(* The other three sites.  ForexFactory prints a day once, on the first    *)
(* row of the day; the second page lists one release twice.                *)
(***************************************************************************)
FFRow(date_span, event) ==
    [date_span |-> date_span, event |-> event, time |-> Some("8:30am"),
     currency |-> Some("USD"), impact_cell |-> TRUE, actual |-> Some("0.3%"),
     forecast |-> Some("0.2%"), previous |-> None]

FFResponses ==
    {None, Some(RejectedPage),
     Some([rejected |-> FALSE,
           rows |-> <<FFRow(Some("ThuDec 25"), Some("CPI m/m")),
                      FFRow(None, None),
                      FFRow(None, Some("Core CPI m/m"))>>]),
     Some([rejected |-> FALSE,
           rows |-> <<FFRow(None, Some("CPI m/m")),
                      FFRow(None, Some("CPI m/m"))>>])}

FXItem(title, volatility) ==
    [time |-> Some("13:30"), country |-> Some("US"), title |-> title,
     volatility |-> volatility, actual |-> None, consensus |-> Some("3.0%"),
     previous |-> Some("3.1%")]

FXResponses ==
    {None,
     Some([rejected |-> FALSE,
           rows |-> <<FXItem(Some("Consumer Price Index (YoY)"),
                             Some(<<"fxs_c_economicCalendar_volatility", "high">>)),
                      FXItem(None, None),
                      FXItem(Some("Retail Sales (MoM)"),
                             Some(<<"fxs_c_economicCalendar_volatility">>))>>])}

\* A page without intraday rows, whose heading row has no td cell, and a
\* page whose intraday rows are taken instead of the others.
MWResponses ==
    {None,
     Some([rejected |-> FALSE, intraday |-> <<>>,
           rows |-> <<<<>>, <<"8:30 am", "Consumer price index", "0.3%">>,
                      <<"Footnote", "n/a">>,
                      <<"8:30 am", "Consumer price index", "0.3%">>>>]),
     Some([rejected |-> FALSE,
           intraday |-> <<<<"10:00 am", "Home sales", "4.1 mln", "4.0 mln", "3.9 mln">>>>,
           rows |-> <<<<>>, <<"10:00 am", "Home sales", "4.1 mln", "4.0 mln", "3.9 mln">>>>])}

\* A page of three data rows under one header; the extraction of the
\* second raises.
TEFaultPage(d1) ==
    [rejected |-> FALSE, table |-> TRUE,
     rows |-> <<HeaderRow(DayOf(d1)), DataRow,
                [DataRow EXCEPT !.raises = TRUE, !.data_id = "402"],
                [DataRow EXCEPT !.data_id = "403"]>>]

\* What fetch_with_retry can return inside the scraper of a source.
\* Two rows of one day without a data-id attribute, for the same release.
TEUnnumberedPage(d1) ==
    [rejected |-> FALSE, table |-> TRUE,
     rows |-> <<HeaderRow(DayOf(d1)), [DataRow EXCEPT !.data_id = ""],
                [DataRow EXCEPT !.data_id = "", !.cells[1] = "14:00"]>>]

SourceResponses(source, d1, d2, t) ==
    CASE source = "TradingEconomics" ->
             TEResponses(d1, d2)
                 \cup {Some(TEFaultPage(d1)), Some(TEUnnumberedPage(d1))}
      [] source = "Investing.com" -> InvestingResponses(t)
      [] source = "ForexFactory" -> FFResponses
      [] source = "FXStreet" -> FXResponses
      [] source = "MarketWatch" -> MWResponses

InitFetch ==
    /\ now = 0
    /\ ticks = 0
    /\ proxy_rotator = RotatorInit
    /\ fetch = FetchInit
    /\ CACHE = <<>>
    /\ CACHE_FILE = None
    /\ fg = FgInit
    /\ pf = PfInit
    /\ rg = RgInit
    /\ lk = LkInit
    /\ sv = SvInit

\* fetch_with_retry against every kind of upstream outcome; the clock stands
\* still, so the pool is refreshed only while it is empty.
NextFetch ==
    \/ \E n \in {1, DefaultRetries}, up \in BOOLEAN : FetchStart(n, up)
    \/ \E pool \in fetch_free_proxies : GetNextProxy(pool)
    \/ \E o \in ProxiedOutcomes : ProxiedRequest(o)
    \/ \E o \in DirectOutcomes : DirectRequest(o)

SpecFetch == InitFetch /\ [][NextFetch]_vars

\* The rotator under a moving clock: fetches whose requests either succeed
\* or fail, pool refreshes gated by fetch_interval, and /proxy/status calls.
RotatorOutcomes == {Resp(200, MinBody + 1), Resp(403, MinBody + 1)}

NextRotator ==
    \/ Tick(fetch_interval)
    \/ FetchStart(DefaultRetries, TRUE)
    \/ \E pool \in fetch_free_proxies : GetNextProxy(pool)
    \/ \E o \in RotatorOutcomes : ProxiedRequest(o)
    \/ \E o \in RotatorOutcomes : DirectRequest(o)
    \/ \E pool \in fetch_free_proxies : ProxyStatus(pool)

SpecRotator == InitFetch /\ [][NextRotator]_vars

(***************************************************************************)
(* Properties of fetch_with_retry and the rotator.                         *)
(***************************************************************************)
\* The success condition as the specification words it: HTTP 200 and a body
\* longer than the threshold.
SuccessCondition(o) == o.exc = "" /\ o.status = 200 /\ o.len > 500

Short200(o) == o.exc = "" /\ o.status = 200 /\ o.len <= 500

ReqsOf(a) == SelectSeq(fetch.reqs, LAMBDA r : r.attempt = a)
AcquiresOf(a) == SelectSeq(fetch.acquires, LAMBDA c : c.attempt = a)
WaitsOf(a) == SelectSeq(fetch.waits, LAMBDA w : w.attempt = a)
Range(s) == {s[i] : i \in 1..Len(s)}

\* The scripted upstream of the scenario: 403, then 500, then a long 200.
ScriptedRun ==
    /\ fetch.pc = "done"
    /\ fetch.max_retries = 3
    /\ Len(fetch.reqs) = 3
    /\ fetch.reqs[1].out = Resp(403, MinBody + 1)
    /\ fetch.reqs[2].out = Resp(500, MinBody + 1)
    /\ fetch.reqs[3].out = Resp(200, MinBody + 1)

C5_AcquireSucceedsAfterReset ==
    /\ fetch.depth <= 1
    /\ \A i \in 1..Len(fetch.acquires) :
          LET c == fetch.acquires[i]
          IN  /\ c.recurse => c.failedAfter = {} /\ c.pool # <<>>
              /\ (~c.recurse /\ c.pool # <<>>) =>
                    /\ c.ret # None
                    /\ c.ret[1] \in Range(c.pool)
              /\ (~c.recurse /\ c.pool = <<>>) => c.ret = None

C5_Witness_ResetThenIdentity ==
    \E i \in 1..Len(fetch.acquires) :
        /\ i > 1
        /\ fetch.acquires[i - 1].allFailed
        /\ fetch.acquires[i - 1].recurse
        /\ fetch.acquires[i].attempt = fetch.acquires[i - 1].attempt
        /\ fetch.acquires[i].depth = 1
        /\ fetch.acquires[i].ret # None

\* C7: fetch_with_retry never raises; once it has returned, the result is
\* None exactly when no request it made met the success condition, and it
\* made its requests within max_retries attempts.
C7_NeverRaisesFailureIffNoSuccess ==
    /\ ~fetch.raised
    /\ \A i \in 1..Len(fetch.reqs) : fetch.reqs[i].attempt <= fetch.max_retries
    /\ fetch.pc = "done" =>
          /\ fetch.result = None <=>
                \A i \in 1..Len(fetch.reqs) : ~SuccessCondition(fetch.reqs[i].out)
          /\ fetch.result # None => SuccessCondition(fetch.result[1].out)

C7_Witness_ExhaustedAfterExceptions ==
    /\ fetch.pc = "done"
    /\ fetch.result = None
    /\ fetch.max_retries = 3
    /\ \E i \in 1..Len(fetch.reqs) : fetch.reqs[i].out.exc = "Timeout"
    /\ \E i \in 1..Len(fetch.reqs) : fetch.reqs[i].out.exc = "ProxyError"

\* C8: a returned response has status 200 and a body longer than 500
\* characters, by either path; a 200 with a body of at most 500 is never
\* returned, and the fetch goes on after it unless the attempts are used up.
C8_ReturnsOnly200LongBody ==
    /\ fetch.result # None =>
          /\ fetch.result[1].out.status = 200
          /\ fetch.result[1].out.len > 500
    /\ \A i \in 1..Len(fetch.reqs) :
          Short200(fetch.reqs[i].out) =>
              /\ fetch.result # Some(fetch.reqs[i])
              /\ (fetch.pc = "done" /\ i = Len(fetch.reqs)) =>
                    /\ fetch.reqs[i].via = None
                    /\ fetch.reqs[i].attempt = fetch.max_retries
                    /\ fetch.result = None

C8_Witness_ShortBodyRetried ==
    /\ fetch.result # None
    /\ fetch.result[1].via # None
    /\ \E i \in 1..Len(fetch.reqs) :
          Short200(fetch.reqs[i].out) /\ fetch.reqs[i].via # None
    /\ \E i \in 1..Len(fetch.reqs) :
          Short200(fetch.reqs[i].out) /\ fetch.reqs[i].via = None

\* C9 as stated: attempt 1 is direct without acquire; an attempt >= 2 sends
\* a direct request only when acquire() returned no identity.
C9_DirectOnlyWithoutIdentity ==
    \A i \in 1..Len(fetch.reqs) :
        LET r == fetch.reqs[i]
        IN  /\ r.attempt = 1 => r.via = None /\ AcquiresOf(1) = <<>>
            /\ (r.attempt >= 2 /\ r.via = None /\ fetch.use_proxy) =>
                  /\ AcquiresOf(r.attempt) # <<>>
                  /\ AcquiresOf(r.attempt)[Len(AcquiresOf(r.attempt))].ret = None

\* C9 amended: with use_proxy on, attempt 1 never calls acquire() and sends
\* one direct request; every attempt >= 2 calls acquire() first and sends
\* its first request through the identity returned; the direct request of
\* such an attempt is sent when acquire() returned no identity or after the
\* proxied request of that attempt failed the success test.  With use_proxy
\* off acquire() is never called and every request is direct.
C9_ProxyThenDirectFallback ==
    /\ AcquiresOf(1) = <<>>
    /\ ~fetch.use_proxy => fetch.acquires = <<>>
    /\ \A i \in 1..Len(fetch.reqs) :
          LET r == fetch.reqs[i]
              acq == AcquiresOf(r.attempt)
              rs == ReqsOf(r.attempt)
          IN  /\ r.attempt = 1 => r.via = None /\ Len(rs) = 1
              /\ ~fetch.use_proxy => r.via = None /\ Len(rs) = 1
              /\ (r.attempt >= 2 /\ fetch.use_proxy) =>
                    /\ acq # <<>>
                    /\ rs[1].via = acq[Len(acq)].ret
                    /\ Len(rs) <= 2
                    /\ Len(rs) = 2 =>
                          /\ rs[1].via # None
                          /\ ~SuccessCondition(rs[1].out)
                          /\ rs[2].via = None

C9_Witness_DirectAfterProxyFailure ==
    \E a \in 2..3 :
        /\ Len(ReqsOf(a)) = 2
        /\ ReqsOf(a)[1].via # None
        /\ ReqsOf(a)[2].via = None

(***************************************************************************)
(* The cache, the /calendar handler and the prefetch thread.               *)
(***************************************************************************)
Init ==
    /\ now = 0
    /\ ticks = 0
    /\ proxy_rotator = RotatorInit
    /\ fetch = FetchInit
    /\ CACHE = <<>>
    /\ CACHE_FILE = None
    /\ fg = FgInit
    /\ pf = PfInit
    /\ rg = RgInit
    /\ lk = LkInit
    /\ sv = SvInit

Next ==
    \/ \E d \in Deltas : Tick(d)
    \/ \E date \in {None, Some(strftime(1))},
          range \in {<<None, None>>, <<Some(strftime(1)), None>>,
                     <<Some(strftime(1)), Some(strftime(1))>>},
          period \in {"week"} :
            Request(date, range[1], range[2], period, None, "all")
    \/ /\ fg.pc = "scraping"
       /\ \E te \in TEResponses(fg.effective_from, fg.effective_to),
             inv \in InvestingResponses(now) : LiveScrape(te, inv)
    \/ Respond
    \/ /\ now >= pf.wake
       /\ \E te \in TEResponses(strftime(Today(now) - 7), strftime(Today(now) + 30)) :
             PrefetchCycle(te, "none")
    \/ Restart

Spec == Init /\ [][Next]_vars

(***************************************************************************)
(* The /calendar/range handler over the five sites.                        *)
(***************************************************************************)
RangeInputs ==
    {<<strftime(1), strftime(1)>>, <<strftime(0), strftime(8)>>,
     <<strftime(8), strftime(0)>>, <<<<"2025-12-32">>, strftime(1)>>}

NextRange ==
    \/ \E d \in Deltas : Tick(d)
    \/ \E r \in RangeInputs, country \in {None, Some("us")} :
          RangeStart(r[1], r[2], country)
    \/ /\ rg.pc = "scraping"
       /\ \E response \in SourceResponses(BroadSources[Len(rg.queried) + 1],
                                           rg.start_date, rg.end_date, now) :
             RangeScrape(response)
    \/ RangeRespond

SpecRange == Init /\ [][NextRange]_vars

(***************************************************************************)
(* Startup over files of every kind: absent, empty, not JSON, a JSON list, *)
(* and objects of up to MaxFileEntries entries, each of them sound,        *)
(* without "timestamp", with a text for timestamp, or with an event whose  *)
(* date is null.                                                           *)
(***************************************************************************)
MaxFileEntries == 2

StoredEvent ==
    EventToJson(CalendarEvent("TradingEconomics", strftime(0), "08:30", "US",
                              "Inflation Rate YoY", NoOpt))

EntryKinds == {"sound", "no_timestamp", "text_timestamp", "bad_event"}

FileEntry(kind, n) ==
    [key |-> cache_key(strftime(0), strftime(n), None, "all"),
     value |->
        [timestamp |-> IF kind = "no_timestamp" THEN <<"absent">>
                       ELSE IF kind = "text_timestamp" THEN <<"string", "yesterday">>
                       ELSE <<"number", 0>>,
         events |-> IF kind = "bad_event"
                    THEN <<StoredEvent, [StoredEvent EXCEPT !.date = JsonNull]>>
                    ELSE <<StoredEvent>>]]

LoadFiles ==
    {None} \cup
    {Some([json |-> j, entries |-> <<>>]) : j \in {"empty", "invalid", "list"}} \cup
    UNION {{Some([json |-> "object",
                  entries |-> [i \in 1..n |-> FileEntry(kinds[i], i)]]) :
               kinds \in [1..n -> EntryKinds]} : n \in 0..MaxFileEntries}

InitLoad ==
    /\ now = 0
    /\ ticks = 0
    /\ proxy_rotator = RotatorInit
    /\ fetch = FetchInit
    /\ CACHE = <<>>
    /\ CACHE_FILE \in LoadFiles
    /\ fg = FgInit
    /\ pf = PfInit
    /\ rg = RgInit
    /\ lk = LkInit
    /\ sv = SvInit

NextLoad ==
    \/ \E d \in Deltas : Tick(d)
    \/ Restart

SpecLoad == InitLoad /\ [][NextLoad]_vars

(***************************************************************************)
(* The event loop runs get_calendar while the prefetch thread runs its     *)
(* cycle; the interpreter may switch threads between any two steps.  The   *)
(* clock moves only between cycles.                                        *)
(***************************************************************************)
NextThreads ==
    \/ /\ pf.k = 0
       /\ \E d \in Deltas : Tick(d)
    \/ \E date \in {None, Some(strftime(1))}, period \in {"today", "week"} :
          LookupStart(date, None, None, period, None, "all")
    \/ LookupNext
    \/ LookupRespond
    \/ /\ now >= pf.wake
       /\ \E te \in TEResponses(strftime(Today(now) - 7), strftime(Today(now) + 30)) :
             PrefetchScrape(te)
    \/ PrefetchPut
    \/ PrefetchSave

\* CACHE is not empty when the thread first runs: the file of an earlier
\* run has been loaded.
InitThreads ==
    /\ now = StartupDelay
    /\ ticks = 0
    /\ proxy_rotator = RotatorInit
    /\ fetch = FetchInit
    /\ CACHE \in {<<>>,
                  <<[key |-> cache_key(strftime(0), strftime(0), None, "all"),
                     timestamp |-> 0,
                     events |-> scrape_trading_economics(strftime(0), strftime(0),
                                    None, Some(TEPage(strftime(0), strftime(0))))]>>}
    /\ CACHE_FILE = save_cache(CACHE)
    /\ fg = FgInit
    /\ pf = PfInit
    /\ rg = RgInit
    /\ lk = LkInit
    /\ sv = SvInit

SpecThreads == InitThreads /\ [][NextThreads]_vars

(***************************************************************************)
(* The prefetch thread alone, with cycles that go wrong at every point,    *)
(* and the process restarted at any time.                                  *)
(***************************************************************************)
NextPrefetch ==
    \/ \E d \in {PrefetchSleep, CACHE_TTL} : Tick(d)
    \/ /\ now >= pf.wake
       /\ \E te \in TEResponses(strftime(Today(now) - 7), strftime(Today(now) + 30)),
             fault \in CycleFaults :
             PrefetchCycle(te, fault)
    \/ Restart

SpecPrefetch == Init /\ [][NextPrefetch]_vars

(***************************************************************************)
(* Properties of the cache and of get_calendar.                            *)
(***************************************************************************)
Age(entry) == now - entry.timestamp

\* A step in which get_calendar ran its cache lookup.
LookupStep == fg.pc = "idle" /\ fg'.pc # "idle"

DateWithin(e, from, to) == StrLE(from, e.date) /\ StrLE(e.date, to)

\* C1: the exact-key path answers only with the entry stored under the key
\* asked for, and only while now - timestamp < 86400.
C1_ExactHitIsFresh ==
    [][(LookupStep /\ fg'.status = "exact") =>
          \E i \in 1..Len(CACHE) :
              /\ CACHE[i].key = fg'.key
              /\ Age(CACHE[i]) < 86400
              /\ fg'.response = CACHE[i].events]_vars

C1_Witness_ExactHitBesideExpired ==
    /\ fg.status = "exact"
    /\ \E i \in 1..Len(CACHE) : CACHE[i].key = fg.key /\ Age(CACHE[i]) < 86400
    /\ \E j \in 1..Len(CACHE) : Age(CACHE[j]) >= 86400

\* C2: when the exact-key path does not answer, the scan answers with the
\* in-range events of one entry younger than the TTL, all of them and only
\* them, and it misses exactly when no such entry holds an event in range.
C2_OverlapOnlyInRangeFromFresh ==
    [][(LookupStep /\ fg'.status # "exact") =>
          LET from == fg'.effective_from
              to == fg'.effective_to
              fresh == {i \in 1..Len(CACHE) : Age(CACHE[i]) < 86400}
              holds(i) == \E k \in 1..Len(CACHE[i].events) :
                              DateWithin(CACHE[i].events[k], from, to)
          IN  /\ fg'.status \in {"overlap", "miss"}
              /\ fg'.status = "miss" <=> ~ \E i \in fresh : holds(i)
              /\ fg'.status = "miss" => fg'.pc = "scraping"
              /\ fg'.status = "overlap" =>
                    /\ fg'.pc = "responded"
                    /\ fg'.response # <<>>
                    /\ \A k \in 1..Len(fg'.response) :
                          DateWithin(fg'.response[k], from, to)
                    /\ \E i \in fresh :
                          fg'.response =
                              SelectSeq(CACHE[i].events,
                                        LAMBDA e : DateWithin(e, from, to))]_vars

C2_Witness_OverlapTrimsEntry ==
    /\ fg.status = "overlap"
    /\ \E i \in 1..Len(CACHE) :
          /\ Age(CACHE[i]) < 86400
          /\ Len(CACHE[i].events) > Len(fg.response)
          /\ \E k \in 1..Len(CACHE[i].events) : CACHE[i].events[k] = fg.response[1]
    /\ \E j \in 1..Len(CACHE) : Age(CACHE[j]) >= 86400

\* C3: with dateFrom <= dateTo, every event a live scrape returns is dated
\* within [dateFrom, dateTo] (the upstream pages of this model carry the
\* true date of every event).
C3_LiveEventsWithinRange ==
    (fg.status = "live" /\ StrLE(fg.effective_from, fg.effective_to)) =>
        \A k \in 1..Len(fg.response) :
            DateWithin(fg.response[k], fg.effective_from, fg.effective_to)

C10_NarrowStopsAtFirstNonEmpty ==
    fg.status \in {"live", "empty"} =>
        LET q == fg.queried
            nonEmpty == {i \in 1..Len(q) : q[i].events # <<>>}
        IN  /\ Len(q) \in {1, 2}
            /\ q[1].source = "TradingEconomics"
            /\ Len(q) = 2 => q[2].source = "Investing.com"
            /\ \A i \in 1..Len(q) : i < Len(q) => q[i].events = <<>>
            /\ nonEmpty = {} => fg.response = <<>> /\ Len(q) = 2
            /\ nonEmpty # {} => fg.response = q[Len(q)].events

C10_Witness_FallbackAnswered ==
    /\ fg.status = "live"
    /\ Len(fg.queried) = 2
    /\ fg.queried[1].events = <<>>
    /\ fg.queried[2].events # <<>>
    /\ fg.response = fg.queried[2].events
\* C12: when the cache cannot serve a /calendar request and each of the
\* sources gives nothing (the fetch failed, the table is missing, the body
\* or every row made the scraper raise), the handler answers with the empty
\* list, after asking both sources, and with no error; the handler never
\* ends in an error.
C12_ExhaustionIsEmptyNotError ==
    /\ fg.error = None
    /\ fg.status # "error"
    /\ fg.status = "empty" =>
          /\ fg.response = <<>>
          /\ Len(fg.queried) = 2
          /\ \A i \in 1..2 : fg.queried[i].events = <<>>
    /\ (fg.status \in {"live", "empty"}
          /\ \A i \in 1..Len(fg.queried) : fg.queried[i].events = <<>>) =>
          fg.status = "empty"

C12_Witness_MissingTableAndRaisingRow ==
    /\ fg.status = "empty"
    /\ fg.response = <<>>
    /\ fg.error = None
    /\ fg.queried[1].page # None
    /\ ~fg.queried[1].page[1].table
    /\ fg.queried[2].page # None
    /\ fg.queried[2].page[1].rows # <<>>

\* C13: load_cache at startup never raises, and when the file is absent,
\* empty, not a JSON object, or has an entry without timestamp or with an
\* event that fails validation, the cache after the load is empty.
C13_LoadNeverRaisesEmptyOnMalformed ==
    LET file == CACHE_FILE
        broken(e) ==
            \/ e.value.timestamp[1] = "absent"
            \/ \E k \in 1..Len(e.value.events) : ~EventValid(e.value.events[k])
    IN  /\ pf.state # "not_started"
        /\ (\/ file = None
            \/ file[1].json # "object"
            \/ \E i \in 1..Len(file[1].entries) : broken(file[1].entries[i]))
               => CACHE = <<>>

C13_Witness_SoundEntryBesideBrokenOne ==
    /\ now > 0
    /\ pf.wake = now + StartupDelay
    /\ CACHE_FILE # None
    /\ CACHE_FILE[1].json = "object"
    /\ Len(CACHE_FILE[1].entries) = 2
    /\ CACHE_FILE[1].entries[1].value.timestamp = <<"number", 0>>
    /\ \A k \in 1..Len(CACHE_FILE[1].entries[1].value.events) :
          EventValid(CACHE_FILE[1].entries[1].value.events[k])
    /\ CACHE_FILE[1].entries[2].value.timestamp = <<"absent">>
    /\ CACHE = <<>>

\* C14: whatever the prefetch thread writes while get_calendar walks over
\* the cache, the walk does not fail: no lookup ends in an error.
C14_LookupNeverFails ==
    lk.error = None

\* C15: the prefetch loop is never left, and every cycle, whether it stored
\* events, found none, or failed in the scrape, in a cache write or in the
\* save, is followed by a sleep of 300 s after which the next cycle starts.
C15_LoopSurvivesEveryCycle ==
    /\ [](pf.state = "running")
    /\ [][Len(pf'.history) > Len(pf.history) =>
            /\ pf'.state = "running"
            /\ pf'.wake = now + 300
            /\ pf.wake <= now]_vars

C15_Witness_CycleAfterFailedOne ==
    /\ Len(pf.history) = 2
    /\ pf.history[1] = "failed"
    /\ pf.history[2] \in {"unsaved", "empty"}
    /\ pf.state = "running"
    /\ pf.wake = now + 300

\* C16: right after a prefetch cycle that obtained events, the cache holds
\* an entry stamped with the time of the cycle under each of the keys
\* today..today, today..today+7, today..today+14 and today-7..today+30,
\* with country None and sources all.
C16_FourKeyShapesStamped ==
    (/\ pf.history # <<>>
     /\ pf.history[Len(pf.history)] \in {"stored", "unsaved"}
     /\ pf.wake = now + 300) =>
        LET today == Today(now)
            shapes == {<<today, today>>, <<today, today + 7>>,
                       <<today, today + 14>>, <<today - 7, today + 30>>}
        IN  \A sh \in shapes :
                \E i \in 1..Len(CACHE) :
                    /\ CACHE[i].key = <<strftime(sh[1]), strftime(sh[2]), "None", "all">>
                    /\ CACHE[i].timestamp = now

(***************************************************************************)
(* Properties of get_calendar_range and of the scrapers.                   *)
(***************************************************************************)
RECURSIVE Flatten(_)
Flatten(q) == IF q = <<>> THEN <<>> ELSE Head(q).events \o Flatten(Tail(q))

RECURSIVE SumLen(_)
SumLen(q) == IF q = <<>> THEN 0 ELSE Len(Head(q).events) + SumLen(Tail(q))

\* C11: a /calendar/range request with a valid range asks the five sources
\* in the order TradingEconomics, Investing.com, ForexFactory, FXStreet,
\* MarketWatch whatever the earlier ones gave, and answers with their event
\* lists joined in that order, every event kept, FXStreet's in item order.
C11_BroadQueriesAllInOrder ==
    LET order == <<"TradingEconomics", "Investing.com", "ForexFactory",
                   "FXStreet", "MarketWatch">>
        q == rg.queried
    IN  /\ \A i \in 1..Len(q) : i <= 5 /\ q[i].source = order[i]
        /\ (rg.pc = "responded" /\ rg.error = None) =>
              /\ Len(q) = 5
              /\ rg.all_events = Flatten(q)
              /\ Len(rg.all_events) = SumLen(q)
              /\ q[4].page # None =>
                    /\ Len(q[4].events) = Len(q[4].page[1].rows)
                    /\ \A k \in 1..Len(q[4].events) :
                          q[4].events[k].event = OrNA(q[4].page[1].rows[k].title)

C11_Witness_AllFiveWithDuplicate ==
    /\ rg.pc = "responded"
    /\ rg.error = None
    /\ \A i \in 1..5 : rg.queried[i].events # <<>>
    /\ \E j, k \in 1..Len(rg.all_events) :
          j < k /\ rg.all_events[j] = rg.all_events[k]
\* The rows of a page its scraper walks over, and whether a row is one the
\* scraper can turn into an event: it holds what an event needs and its
\* extraction does not raise.
PageRows(q) ==
    IF q.source = "MarketWatch" /\ q.page[1].intraday # <<>>
    THEN q.page[1].intraday ELSE q.page[1].rows

WellFormedRow(source, row) ==
    CASE source = "TradingEconomics" ->
             ~row.raises /\ Len(row.cells) >= 4
             /\ (row.header = None \/ ParseHeader(row.header[1]) = None)
      [] source = "Investing.com" -> ~InvestingRowRaises(row)
      [] source = "ForexFactory" -> row.event # None
      [] source = "FXStreet" -> TRUE
      [] source = "MarketWatch" -> Len(row) >= 3

MaxRows == 3

\* A header row whose text is not a date (the column titles), without td cells.
TitleRow ==
    [header |-> Some([A |-> "Actual", B |-> "", d |-> 0, Y |-> 0]),
     cells |-> <<>>, category |-> [text |-> "", chars |-> <<>>],
     data_id |-> "", raises |-> FALSE]

\* A data row one of whose cells carries a colspan attribute and a text that
\* is not a date: row.find('td', {'colspan': True}) finds it.
SpanDataRow ==
    [DataRow EXCEPT !.header = Some([A |-> "Holiday", B |-> "", d |-> 0, Y |-> 0]),
                    !.data_id = "402"]

\* A row with fewer than four td cells.
ShortRow == [DataRow EXCEPT !.cells = <<"08:30", "US", "Note">>, !.data_id = "403"]

DateRow(A, d) ==
    [header |-> Some([A |-> A, B |-> "December", d |-> d, Y |-> 2025]),
     cells |-> <<>>, category |-> [text |-> "", chars |-> <<>>],
     data_id |-> "", raises |-> FALSE]

RowKinds == {DateRow("Friday", 26), TitleRow, SpanDataRow, DataRow, ShortRow}

\* Friday December 12 with three events, Saturday December 13 with one.
TwoDayTable ==
    <<DateRow("Friday", 12), DataRow, DataRow, DataRow,
      DateRow("Saturday", 13), DataRow>>

TETables ==
    {TwoDayTable} \cup UNION {[1..n -> RowKinds] : n \in 1..MaxRows}

\* GET /calendar/range for one day, with only the TradingEconomics fetch
\* answering.
NextParse ==
    \/ RangeStart(strftime(0), strftime(0), None)
    \/ /\ rg.pc = "scraping"
       /\ Len(rg.queried) = 0
       /\ \E rows \in TETables :
             RangeScrape(Some([rejected |-> FALSE, table |-> TRUE, rows |-> rows]))
    \/ /\ rg.pc = "scraping"
       /\ Len(rg.queried) > 0
       /\ RangeScrape(None)
    \/ RangeRespond

SpecParse == Init /\ [][NextParse]_vars

\* The text of a row's colspan cell reads as '%A %B %d %Y'.
IsDateHeader(row) ==
    /\ row.header # None
    /\ row.header[1].B = "December"
    /\ row.header[1].d \in 1..31

\* The rows of a table that yield an event: four td cells or more, and no
\* colspan cell that reads as a date.
Emitting(rows) ==
    {i \in 1..Len(rows) : ~IsDateHeader(rows[i]) /\ Len(rows[i].cells) >= 4}

\* The date of the nearest date header before row i, dateFrom when there is none.
DateAbove(rows, i, dateFrom) ==
    LET above == {j \in 1..(i - 1) : IsDateHeader(rows[j])}
    IN  IF above = {} THEN dateFrom
        ELSE LET j == CHOOSE k \in above : \A l \in above : l <= k
             IN  <<rows[j].header[1].Y, 12, rows[j].header[1].d>>

\* C18: the TradingEconomics parser emits one event per data row, in row
\* order, each dated by the nearest preceding header that parsed as a date,
\* or by dateFrom when none precedes it; a header that does not parse leaves
\* the cursor unchanged; a date header and a header row without data cells
\* emit no event; three events under 'Friday December 12 2025' and one under
\* 'Saturday December 13 2025' are dated 12, 12, 12 and 13 December.
C18_DateCursor ==
    (rg.queried # <<>> /\ rg.queried[1].page # None) =>
        LET rows == rg.queried[1].page[1].rows
            events == rg.queried[1].events
        IN  /\ Len(events) = Cardinality(Emitting(rows))
            /\ \A i \in Emitting(rows) :
                  LET k == Cardinality({j \in Emitting(rows) : j <= i})
                  IN  /\ events[k].date = DateAbove(rows, i, rg.start_date)
                      /\ events[k].event_id = Some(<<"TradingEconomics", rows[i].data_id>>)
            /\ \A i \in 1..Len(rows) :
                  (rows[i].header # None /\ rows[i].cells = <<>>) => i \notin Emitting(rows)
            /\ rows = TwoDayTable =>
                  [k \in 1..Len(events) |-> events[k].date]
                      = <<<<2025, 12, 12>>, <<2025, 12, 12>>, <<2025, 12, 12>>,
                          <<2025, 12, 13>>>>

\* The two-day table has been parsed into its four events.
C18_Witness_TwoDayTable ==
    /\ rg.queried # <<>>
    /\ rg.queried[1].page # None
    /\ rg.queried[1].page[1].rows = TwoDayTable
    /\ Len(rg.queried[1].events) = 4
    /\ rg.queried[1].events[4].date = <<2025, 12, 13>>

(***************************************************************************)
(* Invariants of the events of one aggregation result.                     *)
(***************************************************************************)
ImpactTiers == {Some("High"), Some("Medium"), Some("Low")}

\* C19: every event of an aggregation result, from whichever of the five
\* parsers, has an impact that is one of High, Medium, Low.
C19_ImpactIsATier ==
    \A k \in 1..Len(rg.all_events) : rg.all_events[k].impact \in ImpactTiers

\* C20: no two events of one aggregation result share the pair of source
\* and event_id.
C20_SourceAndIdUnique ==
    \A k, l \in 1..Len(rg.all_events) :
        (rg.all_events[k].source = rg.all_events[l].source
           /\ rg.all_events[k].event_id = rg.all_events[l].event_id) => k = l

(***************************************************************************)
(* The rotation of get_next_proxy over a fetch with many attempts:         *)
(* SpecAcquire.                                                            *)
(***************************************************************************)
\* Calls of get_next_proxy looked at in a row.
MaxCalls == MaxPool + 2

\* fetch_with_retry is called once more with its defaults; the record of the
\* rotator's calls goes on from the fetch before.
FetchAgain ==
    /\ fetch.pc \in {"idle", "done"}
    /\ Len(fetch.acquires) < MaxCalls
    /\ fetch' = LoopTop([FetchInit EXCEPT !.max_retries = DefaultRetries,
                                          !.acquires = fetch.acquires], 0)
    /\ UNCHANGED <<now, ticks, proxy_rotator, CACHE, CACHE_FILE, fg, pf, rg, lk, sv>>

\* Fetch after fetch, each asking the rotator from its second attempt on,
\* under a moving clock and beside /proxy/status calls.
AcquirePools == {pool \in fetch_free_proxies : Len(pool) # 1}

NextAcquire ==
    \/ Tick(fetch_interval)
    \/ FetchAgain
    \/ \E pool \in AcquirePools : GetNextProxy(pool)
    \/ \E o \in RotatorOutcomes : ProxiedRequest(o)
    \/ \E o \in {Resp(403, MinBody + 1)} : DirectRequest(o)
    \/ \E pool \in AcquirePools : ProxyStatus(pool)

SpecAcquire == InitFetch /\ [][NextAcquire]_vars

\* Activation j of get_next_proxy ran on a pool loaded by itself or since
\* the activation before it.
FreshPool(j) ==
    \/ fetch.acquires[j].refreshed
    \/ /\ j > 1
       /\ \/ fetch.acquires[j].pool # fetch.acquires[j - 1].pool
          \/ fetch.acquires[j].fetched # fetch.acquires[j - 1].fetched

IndexIn(pool, p) == CHOOSE i \in 1..Len(pool) : pool[i] = p

\* The place in the pool where activation j starts to look: the first entry
\* of a fresh pool, else the entry after the one handed out last (a round
\* that found every entry failed comes back to where it started); 0 when the
\* log does not tell.
RECURSIVE StartOf(_)
StartOf(j) ==
    IF FreshPool(j) THEN 1
    ELSE IF j = 1 THEN 0
    ELSE LET c == fetch.acquires[j - 1]
         IN  IF c.ret # None
             THEN (IndexIn(c.pool, c.ret[1]) % Len(c.pool)) + 1
             ELSE StartOf(j - 1)

\* The entry a round-robin hands out from place start, passing over failed.
NextUnfailed(pool, start, failed) ==
    LET n == Len(pool)
        at(k) == pool[((start - 1 + k) % n) + 1]
        ks == {k \in 0..(n - 1) : at(k) \notin failed}
    IN  IF ks = {} THEN None
        ELSE Some(at(CHOOSE k \in ks : \A l \in ks : k <= l))

\* C21: between two pool refreshes get_next_proxy hands out the pool entries
\* in cyclic order, passing over exactly the entries marked failed and never
\* returning one that is marked failed; with no failures, as many calls in a
\* row as the pool has entries return every entry once.
C21_RoundRobinSkipsFailed ==
    /\ \A j \in 1..Len(fetch.acquires) :
          LET c == fetch.acquires[j]
          IN  /\ c.ret # None =>
                    /\ c.ret[1] \notin c.failedBefore
                    /\ \E i \in 1..Len(c.pool) : c.pool[i] = c.ret[1]
              /\ (c.pool # <<>> /\ StartOf(j) # 0) =>
                    c.ret = NextUnfailed(c.pool, StartOf(j), c.failedBefore)
    /\ \A j \in 1..Len(fetch.acquires) :
          LET n == Len(fetch.acquires[j].pool)
              run == j..(j + n - 1)
          IN  (/\ n >= 1
               /\ j + n - 1 <= Len(fetch.acquires)
               /\ \A k \in run : fetch.acquires[k].failedBefore = {}
               /\ \A k \in run : k > j => ~FreshPool(k)) =>
                  /\ \A k \in run : fetch.acquires[k].ret # None
                  /\ \A i \in 1..n : \E k \in run :
                        fetch.acquires[k].ret = Some(fetch.acquires[j].pool[i])
                  /\ \A k, l \in run :
                        fetch.acquires[k].ret = fetch.acquires[l].ret => k = l

\* A full pool has been gone round without failures, and an entry marked
\* failed has been passed over for the one after it.
C21_Witness_RoundAndSkip ==
    /\ \E j \in 2..Len(fetch.acquires) :
          /\ Len(fetch.acquires[j].pool) = MaxPool
          /\ ~FreshPool(j)
          /\ fetch.acquires[j].failedBefore = {}
          /\ fetch.acquires[j - 1].failedBefore = {}
          /\ fetch.acquires[j].ret # None
          /\ fetch.acquires[j].ret # fetch.acquires[j - 1].ret
    /\ \E j \in 2..Len(fetch.acquires) :
          LET c == fetch.acquires[j]
          IN  /\ ~FreshPool(j)
              /\ StartOf(j) # 0
              /\ c.ret # None
              /\ c.pool[StartOf(j)] \in c.failedBefore

(***************************************************************************)
(* The refreshes of the proxy pool.                                        *)
(***************************************************************************)
\* A step in which the pool was loaded from the providers: the list or the
\* time of the last load has changed.
PoolReloaded ==
    \/ proxy_rotator'.proxies # proxy_rotator.proxies
    \/ proxy_rotator'.last_fetch_time # proxy_rotator.last_fetch_time

\* C22: over get_next_proxy and /proxy/status calls, a refresh of the pool
\* comes at least fetch_interval (300 s) after the refresh before it, also
\* while the pool is empty.
C22_RefreshesSpacedByInterval ==
    [][PoolReloaded =>
          \/ proxy_rotator.last_fetch_time = None
          \/ now - proxy_rotator.last_fetch_time[1] >= fetch_interval]_vars

\* C22 as the code has it: a refresh of a pool that is not empty comes more
\* than fetch_interval after the refresh before it; an empty pool is
\* refreshed at every call.
C22_RefreshGatedUnlessEmpty ==
    [][PoolReloaded =>
          \/ proxy_rotator.last_fetch_time = None
          \/ now - proxy_rotator.last_fetch_time[1] > fetch_interval
          \/ proxy_rotator.proxies = <<>>]_vars

\* Two calls of get_next_proxy in one fetch: the first ran on a pool that was
\* not empty, the second refreshed it at a later time.
C22_Witness_SecondRefreshAfterInterval ==
    \E j \in 2..Len(fetch.acquires) :
        /\ fetch.acquires[j - 1].pool # <<>>
        /\ fetch.acquires[j - 1].fetched # None
        /\ fetch.acquires[j].refreshed
        /\ fetch.acquires[j].fetched[1]
              > fetch.acquires[j - 1].fetched[1] + fetch_interval

(***************************************************************************)
(* get_next_proxy on an empty pool.                                        *)
(***************************************************************************)
\* C23: when the pool is empty after the refresh that get_next_proxy tried,
\* it returns no identity, without calling itself again and without
\* raising, and the attempt that called it goes on with a direct request
\* and sends none through a proxy.
C23_EmptyPoolGivesDirect ==
    \A j \in 1..Len(fetch.acquires) :
        LET c == fetch.acquires[j]
        IN  c.pool = <<>> =>
                /\ c.ret = None
                /\ ~c.recurse
                /\ ~fetch.raised
                /\ \A i \in 1..Len(fetch.reqs) :
                      fetch.reqs[i].attempt = c.attempt => fetch.reqs[i].via = None
                /\ \/ /\ fetch.pc = "direct"
                      /\ fetch.attempt + 1 = c.attempt
                   \/ \E i \in 1..Len(fetch.reqs) :
                         /\ fetch.reqs[i].attempt = c.attempt
                         /\ fetch.reqs[i].via = None

\* The refresh of an attempt's get_next_proxy loaded nothing, and the
\* attempt has sent its direct request.
C23_Witness_DirectAfterEmptyRefresh ==
    \E j \in 1..Len(fetch.acquires) :
        /\ fetch.acquires[j].pool = <<>>
        /\ fetch.acquires[j].refreshed
        /\ \E i \in 1..Len(fetch.reqs) :
              /\ fetch.reqs[i].attempt = fetch.acquires[j].attempt
              /\ fetch.reqs[i].via = None

(***************************************************************************)
(* The scrapers beside a moving clock, cache and rotator: SpecPure.        *)
(***************************************************************************)
\* A table whose first data row stands before any date header.
HeadlessTable ==
    [rejected |-> FALSE, table |-> TRUE,
     rows |-> <<DataRow, DateRow("Friday", 26), [DataRow EXCEPT !.data_id = "404"]>>]

\* GET /calendar/range for one day while the clock moves, /proxy/status
\* reloads the pool and the prefetch thread fills the cache.
NextPure ==
    \/ Tick(CACHE_TTL)
    \/ RangeStart(strftime(0), strftime(0), None)
    \/ /\ rg.pc = "scraping"
       /\ \E response \in
             IF Len(rg.queried) = 0 THEN {None, Some(HeadlessTable)}
             ELSE SourceResponses(BroadSources[Len(rg.queried) + 1],
                                  rg.start_date, rg.end_date, 0) :
             RangeScrape(response)
    \/ RangeRespond
    \/ \E pool \in {<<>>, <<"p1">>} : ProxyStatus(pool)
    \/ /\ now >= pf.wake
       /\ PrefetchCycle(Some(TEPage(strftime(Today(now) - 7),
                                    strftime(Today(now) + 30))), "none")

SpecPure == Init /\ [][NextPure]_vars

Periods == {"today", "tomorrow", "week", "month", "year"}

\* GET /calendar with and without date, date_from, date_to, under each
\* period, on an empty cache.
NextResolve ==
    \/ Tick(CACHE_TTL)
    \/ \E date \in {None, Some(strftime(3))},
          date_from \in {None, Some(strftime(1))},
          date_to \in {None, Some(strftime(2))},
          period \in Periods :
            LookupStart(date, date_from, date_to, period, None, "all")
    \/ LookupNext
    \/ LookupRespond

SpecResolve == Init /\ [][NextResolve]_vars

\* The days after today at which a period starts and ends.
PeriodSpan(period) ==
    CASE period = "today" -> <<0, 0>>
      [] period = "tomorrow" -> <<1, 1>>
      [] period = "week" -> <<0, 7>>
      [] period = "month" -> <<0, 30>>
      [] OTHER -> <<0, 0>>

\* C25: GetCalendar takes as effective range [d, d] for an explicit date d;
\* else [dateFrom, dateTo] when both are given; else the period's: today
\* [today, today], tomorrow [today+1, today+1], week [today, today+7], month
\* [today, today+30], any other value [today, today].
C25_EffectiveRange ==
    [][(lk.pc = "idle" /\ lk'.pc # "idle") =>
          LET a == lk'.args
              range == <<lk'.effective_from, lk'.effective_to>>
              today == now \div 86400
          IN  /\ a.date # None => range = <<a.date[1], a.date[1]>>
              /\ (a.date = None /\ a.date_from # None /\ a.date_to # None) =>
                    range = <<a.date_from[1], a.date_to[1]>>
              /\ (a.date = None /\ (a.date_from = None \/ a.date_to = None)) =>
                    range = <<strftime(today + PeriodSpan(a.period)[1]),
                              strftime(today + PeriodSpan(a.period)[2])>>]_vars

\* A request that gave a date, a range and a period has been resolved to
\* the date, on a day after the first.
C25_Witness_DateOverRangeOverPeriod ==
    /\ lk.pc # "idle"
    /\ now > 0
    /\ lk.args.date = Some(strftime(3))
    /\ lk.args.date_from = Some(strftime(1))
    /\ lk.args.date_to = Some(strftime(2))
    /\ lk.args.period = "month"
    /\ lk.effective_from = strftime(3)
    /\ lk.effective_to = strftime(3)

(***************************************************************************)
(* Where a prefetch cycle takes its events from.                           *)
(***************************************************************************)
\* C26: a refresh cycle obtains its events through the broad aggregation:
\* it asks all five sources, and the list it writes is their results put
\* together, not the result of one source.
C26_PrefetchAsksAllFive ==
    pf.queried # <<>> =>
        /\ [n \in 1..Len(pf.queried) |-> pf.queried[n].source] = BroadSources
        /\ \A i \in 1..Len(CACHE) :
              CACHE[i].timestamp = pf.wake - PrefetchSleep =>
                  CACHE[i].events = Flatten([n \in 1..Len(pf.queried) |->
                                                pf.queried[n].events])

\* C26 as the code has it: a refresh cycle asks TradingEconomics alone, and
\* the list it writes under each of its keys is what that scraper returned
\* for the window.
C26_PrefetchAsksTradingEconomicsOnly ==
    pf.queried # <<>> =>
        /\ Len(pf.queried) = 1
        /\ pf.queried[1].source = "TradingEconomics"
        /\ \A i \in 1..Len(CACHE) :
              CACHE[i].timestamp = pf.wake - PrefetchSleep =>
                  CACHE[i].events = pf.queried[1].events

\* A cycle has written the events of its one scrape into the cache.
C26_Witness_CycleStored ==
    /\ pf.history # <<>>
    /\ pf.history[Len(pf.history)] = "stored"
    /\ pf.queried # <<>>
    /\ pf.queried[1].events # <<>>
    /\ \E i \in 1..Len(CACHE) :
          /\ CACHE[i].timestamp = pf.wake - PrefetchSleep
          /\ CACHE[i].events = pf.queried[1].events

(***************************************************************************)
(* The dates of the events a cache entry holds.                            *)
(***************************************************************************)
\* C27: in every reachable state, after the handler's puts and the prefetch
\* thread's alike, the events of every cache entry are dated within the
\* range that the entry's key names.
C27_EntryEventsWithinKeyRange ==
    \A i \in 1..Len(CACHE) :
        \A k \in 1..Len(CACHE[i].events) :
            /\ StrLE(CACHE[i].key[1], CACHE[i].events[k].date)
            /\ StrLE(CACHE[i].events[k].date, CACHE[i].key[2])

(***************************************************************************)
(* get_calendar on a cache that earlier requests have filled: SpecServe.   *)
(***************************************************************************)
MaxPreloaded == 3

\* What scrape_trading_economics returns for one day with one release.
OneDayEvents(n, id) ==
    scrape_trading_economics(strftime(n), strftime(n), None,
        Some([rejected |-> FALSE, table |-> TRUE,
              rows |-> <<HeaderRow(n), [DataRow EXCEPT !.data_id = id]>>]))

\* Entries left by requests before the first day of the run (the clock
\* starts at CACHE_TTL, on day 1): one for day 1 written a day ago, one for
\* the week from day 1, one for day 1 and country us, one for day 3.
PreloadedEntries ==
    {[key |-> cache_key(strftime(1), strftime(1), None, "all"),
      timestamp |-> 0, events |-> OneDayEvents(1, "401")],
     [key |-> cache_key(strftime(1), strftime(8), None, "all"),
      timestamp |-> CACHE_TTL,
      events |-> OneDayEvents(1, "402") \o OneDayEvents(8, "403")],
     [key |-> cache_key(strftime(1), strftime(1), Some("us"), "all"),
      timestamp |-> CACHE_TTL, events |-> OneDayEvents(1, "404")],
     [key |-> cache_key(strftime(3), strftime(3), None, "all"),
      timestamp |-> CACHE_TTL, events |-> OneDayEvents(3, "405")]}

PreloadedCaches ==
    {c \in UNION {[1..n -> PreloadedEntries] : n \in 0..MaxPreloaded} :
        \A i, j \in 1..Len(c) : c[i] = c[j] => i = j}

InitServe ==
    /\ now = CACHE_TTL
    /\ ticks = 0
    /\ proxy_rotator = RotatorInit
    /\ fetch = FetchInit
    /\ CACHE \in PreloadedCaches
    /\ CACHE_FILE = save_cache(CACHE)
    /\ fg = FgInit
    /\ pf = PfInit
    /\ rg = RgInit
    /\ lk = LkInit
    /\ sv = SvInit

\* Requests for a period, with and without a country filter and a
\* source selector; a live scrape gets the TradingEconomics page or nothing.
NextServe ==
    \/ Tick(CACHE_TTL)
    \/ \E period \in {"today", "week"},
          filter \in {<<None, "all">>, <<Some("us"), "all">>, <<None, "investing">>} :
            Request(None, None, None, period, filter[1], filter[2])
    \/ /\ fg.pc = "scraping"
       /\ \E te \in {None, Some(TEPage(fg.effective_from, fg.effective_to))} :
             LiveScrape(te, None)
    \/ Respond

SpecServe == InitServe /\ [][NextServe]_vars

CountryOfKey(country) == IF country = None THEN "None" ELSE country[1]

\* C28: a request with country filter c and source selector s is answered
\* from the cache only out of an entry whose key carries the same c and s.
C28_ServedFromSameFilterOnly ==
    [][(LookupStep /\ fg'.status \in {"exact", "overlap"}) =>
          \E i \in 1..Len(CACHE) :
              /\ CACHE[i].key[3] = CountryOfKey(fg'.country)
              /\ CACHE[i].key[4] = fg'.key[4]
              /\ \/ fg'.response = CACHE[i].events
                 \/ fg'.response =
                        SelectSeq(CACHE[i].events,
                                  LAMBDA e : DateWithin(e, fg'.effective_from,
                                                        fg'.effective_to))]_vars

\* The entries the scan may answer from: younger than the TTL, with an
\* event in the range asked for.
Serving(from, to) ==
    {i \in 1..Len(CACHE) :
        /\ Age(CACHE[i]) < 86400
        /\ \E k \in 1..Len(CACHE[i].events) : DateWithin(CACHE[i].events[k], from, to)}

\* C29: the scan answers with the in-range events of one entry, the first
\* in iteration order that is not expired and holds an event in range;
\* events of later entries are not added, and expired entries and entries
\* without an event in range are passed over without ending the scan.
C29_ScanAnswersFromFirstServingEntry ==
    [][(LookupStep /\ fg'.status # "exact") =>
          LET from == fg'.effective_from
              to == fg'.effective_to
              J == Serving(from, to)
          IN  IF J = {} THEN fg'.status = "miss"
              ELSE LET first == CHOOSE j \in J : \A l \in J : j <= l
                   IN  /\ fg'.status = "overlap"
                       /\ fg'.response =
                              SelectSeq(CACHE[first].events,
                                        LAMBDA e : DateWithin(e, from, to))]_vars

\* The scan has passed over an expired entry with an event in range and
\* answered from the entry after it, leaving out the event in range of the
\* entry after that one.
C29_Witness_SecondOfThreeServes ==
    /\ fg.status = "overlap"
    /\ Len(CACHE) = 3
    /\ Age(CACHE[1]) >= 86400
    /\ \E k \in 1..Len(CACHE[1].events) :
          DateWithin(CACHE[1].events[k], fg.effective_from, fg.effective_to)
    /\ Serving(fg.effective_from, fg.effective_to) = {2, 3}
    /\ fg.response = SelectSeq(CACHE[2].events,
                         LAMBDA e : DateWithin(e, fg.effective_from, fg.effective_to))
    /\ \E k \in 1..Len(CACHE[3].events) :
          /\ DateWithin(CACHE[3].events[k], fg.effective_from, fg.effective_to)
          /\ \A m \in 1..Len(fg.response) : fg.response[m] # CACHE[3].events[k]

\* C30: when the cache can serve a request, by a fresh entry under the
\* exact key or by a fresh entry with an event in range, get_calendar
\* answers without a fetch, without a call of the rotator and without
\* changing or saving the cache.
C30_CacheHitTouchesNothing ==
    [][(LookupStep
          /\ \/ \E i \in 1..Len(CACHE) :
                   CACHE[i].key = fg'.key /\ Age(CACHE[i]) < 86400
             \/ Serving(fg'.effective_from, fg'.effective_to) # {}) =>
          /\ fg'.pc = "responded"
          /\ fg'.status \in {"exact", "overlap"}
          /\ fg'.queried = <<>>
          /\ CACHE' = CACHE
          /\ CACHE_FILE' = CACHE_FILE
          /\ proxy_rotator' = proxy_rotator
          /\ fetch' = fetch]_vars

\* A request has been answered from the entry under its own key, with
\* nothing asked upstream.
C30_Witness_ExactHitNoScrape ==
    /\ fg.pc = "responded"
    /\ fg.status = "exact"
    /\ fg.queried = <<>>
    /\ fg.response # <<>>
    /\ \E i \in 1..Len(CACHE) :
          CACHE[i].key = fg.key /\ CACHE[i].events = fg.response
    /\ CACHE_FILE = save_cache(CACHE)

(***************************************************************************)
(* A proxied request answered 429 or 403.                                  *)
(***************************************************************************)
RateLimited(o) == o.exc = "" /\ o.status \in {429, 403}

\* Request i of the log went through a proxy and was answered 429 or 403.
ProxiedRateLimited(i) ==
    /\ fetch.reqs[i].via # None
    /\ RateLimited(fetch.reqs[i].out)

\* A later attempt has begun after attempt a.
LaterAttempt(a) ==
    \/ \E i \in 1..Len(fetch.reqs) : fetch.reqs[i].attempt > a
    \/ \E j \in 1..Len(fetch.acquires) : fetch.acquires[j].attempt > a
    \/ fetch.pc \in {"acquire", "direct"} /\ fetch.attempt + 1 > a

\* The step sends a request through a proxy and gets 429 or 403.
ProxiedRateLimitedStep ==
    /\ Len(fetch'.reqs) = Len(fetch.reqs) + 1
    /\ fetch'.reqs[Len(fetch'.reqs)].via # None
    /\ RateLimited(fetch'.reqs[Len(fetch'.reqs)].out)

HoldsEntry(cache, e) == \E j \in 1..Len(cache) : cache[j] = e
HoldsKey(cache, key) == \E j \in 1..Len(cache) : cache[j].key = key
Overwritten(cache, key, current_time) ==
    \E j \in 1..Len(cache) :
        /\ cache[j].key = key
        /\ cache[j].timestamp = current_time
        /\ cache[j].events # <<>>

MaxImpactRows == 2

\* data-category attributes, the last one an absent attribute (main.py:354).
CategoryTexts ==
    <<[text |-> "Inflation Rate",
       chars |-> <<"I", "n", "f", "l", "a", "t", "i", "o", "n", " ", "R",
                 "a", "t", "e">>],
      [text |-> "Corporate Profits",
       chars |-> <<"C", "o", "r", "p", "o", "r", "a", "t", "e", " ", "P",
                 "r", "o", "f", "i", "t", "s">>],
      [text |-> "GDP Consumer Spending",
       chars |-> <<"G", "D", "P", " ", "C", "o", "n", "s", "u", "m", "e",
                 "r", " ", "S", "p", "e", "n", "d", "i", "n", "g">>],
      [text |-> "Non Farm Payrolls",
       chars |-> <<"N", "o", "n", " ", "F", "a", "r", "m", " ", "P", "a",
                 "y", "r", "o", "l", "l", "s">>],
      [text |-> "Balance of Trade",
       chars |-> <<"B", "a", "l", "a", "n", "c", "e", " ", "o", "f", " ",
                 "T", "r", "a", "d", "e">>],
      [text |-> "Retail Sales MoM",
       chars |-> <<"R", "e", "t", "a", "i", "l", " ", "S", "a", "l", "e",
                 "s", " ", "M", "o", "M">>],
      [text |-> "Manufacturing PMI",
       chars |-> <<"M", "a", "n", "u", "f", "a", "c", "t", "u", "r", "i",
                 "n", "g", " ", "P", "M", "I">>],
      [text |-> "Housing Starts",
       chars |-> <<"H", "o", "u", "s", "i", "n", "g", " ", "S", "t", "a",
                 "r", "t", "s">>],
      [text |-> "Fed Chair Speech",
       chars |-> <<"F", "e", "d", " ", "C", "h", "a", "i", "r", " ", "S",
                 "p", "e", "e", "c", "h">>],
      [text |-> "FOMC Minutes",
       chars |-> <<"F", "O", "M", "C", " ", "M", "i", "n", "u", "t", "e", "s">>],
      [text |-> "ECB Press Conference",
       chars |-> <<"E", "C", "B", " ", "P", "r", "e", "s", "s", " ", "C",
                 "o", "n", "f", "e", "r", "e", "n", "c", "e">>],
      [text |-> "BoE Gov Speech",
       chars |-> <<"B", "o", "E", " ", "G", "o", "v", " ", "S", "p", "e",
                 "e", "c", "h">>],
      [text |-> "Federal Budget Balance",
       chars |-> <<"F", "e", "d", "e", "r", "a", "l", " ", "B", "u", "d",
                 "g", "e", "t", " ", "B", "a", "l", "a", "n", "c", "e">>],
      [text |-> "Manufacturing Production",
       chars |-> <<"M", "a", "n", "u", "f", "a", "c", "t", "u", "r", "i",
                 "n", "g", " ", "P", "r", "o", "d", "u", "c", "t", "i",
                 "o", "n">>],
      [text |-> "",
       chars |-> <<>>]>>

CategoryRow(i) ==
    [DataRow EXCEPT !.category = CategoryTexts[i],
                    !.cells[3] = CategoryTexts[i].text]

ImpactTables ==
    UNION {[1..n -> {CategoryRow(i) : i \in 1..Len(CategoryTexts)}] :
              n \in 1..MaxImpactRows}

\* GET /calendar/range for one day, with only the TradingEconomics fetch
\* answering, its rows of every category.
NextImpact ==
    \/ RangeStart(strftime(0), strftime(0), None)
    \/ /\ rg.pc = "scraping"
       /\ Len(rg.queried) = 0
       /\ \E rows \in ImpactTables :
             RangeScrape(Some([rejected |-> FALSE, table |-> TRUE, rows |-> rows]))
    \/ /\ rg.pc = "scraping"
       /\ Len(rg.queried) > 0
       /\ RangeScrape(None)
    \/ RangeRespond

SpecImpact == Init /\ [][NextImpact]_vars

\* The impact by two keyword lists, the first list taking precedence.
ImpactBy(chars, highs, mediums) ==
    IF \E x \in highs : Contains(lower(chars), x) THEN "High"
    ELSE IF \E x \in mediums : Contains(lower(chars), x) THEN "Medium"
    ELSE "Low"

ScrapedFromTable ==
    /\ rg.queried # <<>>
    /\ rg.queried[1].page # None
    /\ Len(rg.queried[1].events) = Len(rg.queried[1].page[1].rows)

\* C33: the impact of a TradingEconomics event is High when the lower-cased
\* category text contains one of rate, inflation, gdp, payroll,
\* unemployment, fed, fomc, ecb, boe; else Medium when it contains one of
\* balance, spending, sales, confidence, pmi, manufacturing; else Low.
C33_ImpactByTheNineAndSixKeywords ==
    ScrapedFromTable =>
        \A k \in 1..Len(rg.queried[1].events) :
            rg.queried[1].events[k].impact =
                Some(ImpactBy(rg.queried[1].page[1].rows[k].category.chars,
                        {<<"r", "a", "t", "e">>,
                         <<"i", "n", "f", "l", "a", "t", "i", "o", "n">>,
                         <<"g", "d", "p">>,
                         <<"p", "a", "y", "r", "o", "l", "l">>,
                         <<"u", "n", "e", "m", "p", "l", "o", "y", "m", "e", "n", "t">>,
                         <<"f", "e", "d">>, <<"f", "o", "m", "c">>,
                         <<"e", "c", "b">>, <<"b", "o", "e">>},
                        {<<"b", "a", "l", "a", "n", "c", "e">>,
                         <<"s", "p", "e", "n", "d", "i", "n", "g">>,
                         <<"s", "a", "l", "e", "s">>,
                         <<"c", "o", "n", "f", "i", "d", "e", "n", "c", "e">>,
                         <<"p", "m", "i">>,
                         <<"m", "a", "n", "u", "f", "a", "c", "t", "u", "r", "i", "n", "g">>}))

\* C33 as the code has it: High when the lower-cased data-category contains
\* one of rate, inflation, gdp, payroll, unemployment; else Medium when it
\* contains one of balance, spending, sales, confidence, pmi; else Low.
C33_ImpactByTheFiveAndFiveKeywords ==
    ScrapedFromTable =>
        \A k \in 1..Len(rg.queried[1].events) :
            rg.queried[1].events[k].impact =
                Some(ImpactBy(rg.queried[1].page[1].rows[k].category.chars,
                        {<<"r", "a", "t", "e">>,
                         <<"i", "n", "f", "l", "a", "t", "i", "o", "n">>,
                         <<"g", "d", "p">>,
                         <<"p", "a", "y", "r", "o", "l", "l">>,
                         <<"u", "n", "e", "m", "p", "l", "o", "y", "m", "e", "n", "t">>},
                        {<<"b", "a", "l", "a", "n", "c", "e">>,
                         <<"s", "p", "e", "n", "d", "i", "n", "g">>,
                         <<"s", "a", "l", "e", "s">>,
                         <<"c", "o", "n", "f", "i", "d", "e", "n", "c", "e">>,
                         <<"p", "m", "i">>}))

\* A table read with a category holding words of both lists
\* ('GDP Consumer Spending', High) beside one holding 'fed' and 'balance'
\* ('Federal Budget Balance', Medium).
C33_Witness_BothListsAndFederal ==
    /\ ScrapedFromTable
    /\ Len(rg.queried[1].events) = 2
    /\ rg.queried[1].events[1].category = Some("GDP Consumer Spending")
    /\ rg.queried[1].events[1].impact = Some("High")
    /\ rg.queried[1].events[2].category = Some("Federal Budget Balance")
    /\ rg.queried[1].events[2].impact = Some("Medium")

(***************************************************************************)
(* Empty results and the cache                                             *)
(***************************************************************************)
\* The foreground handler ends its live scrape in this step.
ScrapeEnds == fg.pc = "scraping" /\ fg'.pc = "responded"
\* The prefetch thread ends a cycle in this step.
CycleEnds == Len(pf'.history) = Len(pf.history) + 1
\* What the sources asked in the cycle gave, one after the other.
CycleEvents(queried) == Flatten(queried)

\* C34: a live scrape or a prefetch cycle that yields zero events leaves
\* CACHE and the cache file as they are; an entry is written, and the file
\* rewritten, only in the step that ends a scrape or a cycle with events,
\* and the entry written holds exactly those events, never an empty list;
\* a request that goes on to fetch changes nothing before the fetch ends.
C34_EmptyResultLeavesCacheAlone ==
    /\ [][(ScrapeEnds /\ fg'.response = <<>>) =>
             UNCHANGED <<CACHE, CACHE_FILE>>]_vars
    /\ [][(CycleEnds /\ CycleEvents(pf'.queried) = <<>>) =>
             UNCHANGED <<CACHE, CACHE_FILE>>]_vars
    /\ [][(fg.pc = "idle" /\ fg'.pc = "scraping") =>
             UNCHANGED <<CACHE, CACHE_FILE>>]_vars
    /\ [][\A j \in 1..Len(CACHE') :
             HoldsEntry(CACHE, CACHE'[j]) \/
                /\ CACHE'[j].events # <<>>
                /\ CACHE'[j].timestamp = now
                /\ \/ ScrapeEnds /\ CACHE'[j].events = fg'.response
                                 /\ CACHE'[j].key = fg.key
                   \/ CycleEnds /\ CACHE'[j].events = CycleEvents(pf'.queried)]_vars
    /\ [][CACHE_FILE' # CACHE_FILE =>
             /\ CACHE_FILE' = save_cache(CACHE')
             /\ \/ ScrapeEnds /\ fg'.response # <<>>
                \/ CycleEnds /\ CycleEvents(pf'.queried) # <<>>]_vars
    /\ [](\A i \in 1..Len(CACHE) : CACHE[i].events # <<>>)

\* A live scrape has just ended without events, the last prefetch cycle
\* had ended without events too, and the cache, filled before, is what the
\* file holds.
C34_Witness_EmptyScrapeAndEmptyCycle ==
    /\ fg.pc = "responded"
    /\ fg.status = "empty"
    /\ fg.queried # <<>>
    /\ pf.history # <<>>
    /\ pf.history[Len(pf.history)] = "empty"
    /\ Len(CACHE) >= 1
    /\ CACHE_FILE = save_cache(CACHE)

(***************************************************************************)
(* The cost of one fetch_with_retry                                        *)
(***************************************************************************)
\* The calls of get_next_proxy made by fetch_with_retry itself, not those
\* get_next_proxy makes of itself.
OwnAcquires == SelectSeq(fetch.acquires, LAMBDA c : c.depth = 0)
\* What the call has done so far.
FetchWork(f) == Len(f.reqs) + Len(f.acquires)

\* C35: with max_retries = n, fetch_with_retry makes at most n attempts and
\* at most 2n - 1 requests to the target: one direct request in attempt 1,
\* at most one proxied and one direct request in each later attempt; it
\* calls get_next_proxy at most n - 1 times; with use_proxy off it makes at
\* most n requests; and it ends: every step of a call adds a request or an
\* activation of get_next_proxy, whose number is bounded, and no step waits
\* for anything but its request.
C35_FetchBoundedByRetries ==
    /\ [](fetch.pc # "idle" =>
            LET n == fetch.max_retries
            IN  /\ fetch.attempt <= n
                /\ \A i \in 1..Len(fetch.reqs) : fetch.reqs[i].attempt \in 1..n
                /\ Len(ReqsOf(1)) <= 1
                /\ \A r \in Range(ReqsOf(1)) : r.via = None
                /\ \A a \in 2..n :
                      /\ Len(SelectSeq(ReqsOf(a), LAMBDA r : r.via # None)) <= 1
                      /\ Len(SelectSeq(ReqsOf(a), LAMBDA r : r.via = None)) <= 1
                /\ Len(fetch.reqs) <= 2 * n - 1
                /\ Len(OwnAcquires) <= n - 1
                /\ ~fetch.use_proxy => Len(fetch.reqs) <= n /\ fetch.acquires = <<>>
                /\ FetchWork(fetch) <= (2 * n - 1) + 2 * (n - 1)
                /\ fetch.pc = "acquire" => fetch.depth < MaxDepth
                /\ fetch.pc \in {"acquire", "proxied", "direct", "done"}
                /\ (fetch.pc = "done" /\ fetch.result = None /\ ~fetch.raised) =>
                      fetch.attempt = n)
    /\ [][(fetch' # fetch /\ fetch.pc \notin {"idle", "done"}) =>
             FetchWork(fetch') = FetchWork(fetch) + 1]_vars

\* A call with max_retries = 3 has ended without a response after five
\* requests, two of them proxied, and two calls of get_next_proxy.
C35_Witness_FiveRequestsThreeAttempts ==
    /\ fetch.pc = "done"
    /\ fetch.max_retries = 3
    /\ fetch.result = None
    /\ Len(fetch.reqs) = 5
    /\ Len(OwnAcquires) = 2
    /\ fetch.reqs[2].via # None
    /\ fetch.reqs[4].via # None

(***************************************************************************)
(* The failed set and the pool                                             *)
(***************************************************************************)
\* C36: the failed set of the rotator is always a subset of its pool, also
\* after a refresh has replaced the pool, so that the number of failed
\* proxies /proxy/status reports never exceeds the number of active ones.
C36_FailedWithinPool ==
    /\ proxy_rotator.failed_proxies \subseteq Range(proxy_rotator.proxies)
    /\ Cardinality(proxy_rotator.failed_proxies) <= Len(proxy_rotator.proxies)

(***************************************************************************)
(* save_cache step by step in both threads: SpecPersist.                    *)
(* The handler runs on the event-loop thread, background_prefetch in a     *)
(* threading.Thread (main.py:241-243); CACHE and the file are shared and   *)
(* nothing in main.py locks them.  A save_cache call makes the iterator of *)
(* CACHE.items(), reads one entry per step into serializable_cache, opens  *)
(* the file with mode 'w', which truncates it, and writes and closes it.   *)
(* A writer whose open file was truncated or written by the other thread   *)
(* leaves its own text or a mixture that is no JSON.                       *)
(***************************************************************************)
Threads == {"fg", "pf"}
OtherThread(t) == IF t = "fg" THEN "pf" ELSE "fg"

\* CACHE[cache_key] = (time.time(), live_data) (main.py:704-706); save_cache
\* is called next.
LivePut(te) ==
    /\ fg.pc = "scraping"
    /\ sv.fg.pc = "idle"
    /\ LET live == LiveData(fg.effective_from, fg.effective_to, fg.country, te, None)
       IN  IF ~live.raised /\ Truthy(live.live_data)
           THEN /\ CACHE' = CachePut(CACHE, fg.key, now, live.live_data)
                /\ fg' = [fg EXCEPT !.pc = "saving", !.status = "live",
                                    !.response = live.live_data,
                                    !.queried = live.queried]
                /\ sv' = [sv EXCEPT !.fg.pc = "entered"]
           ELSE /\ fg' = [fg EXCEPT !.pc = "responded", !.status = "empty",
                                    !.response = <<>>, !.queried = live.queried]
                /\ UNCHANGED <<CACHE, sv>>
    /\ UNCHANGED <<now, ticks, proxy_rotator, fetch, CACHE_FILE, pf, rg, lk>>

\* The three keys are written (main.py:222-223); save_cache is called next.
PrefetchSaveEnter ==
    /\ pf.state = "running"
    /\ pf.k > Len(PrefetchKeys(Today(now)))
    /\ sv.pf.pc = "idle"
    /\ sv' = [sv EXCEPT !.pf.pc = "entered"]
    /\ UNCHANGED <<now, ticks, proxy_rotator, fetch, CACHE, CACHE_FILE, fg, pf, rg, lk>>

\* save_cache has returned in thread t: the handler answers, the prefetch
\* thread goes to sleep (main.py:708, 226-235).
SaveReturns(t, saved) ==
    IF t = "fg"
    THEN /\ fg' = [fg EXCEPT !.pc = "responded"]
         /\ UNCHANGED pf
    ELSE /\ pf' = [pf EXCEPT !.k = 0, !.events = <<>>,
                             !.wake = now + PrefetchSleep,
                             !.history = Append(@, IF saved THEN "stored"
                                                   ELSE "unsaved")]
         /\ UNCHANGED fg

\* iter(CACHE.items()) (main.py:161)
SaveIter(t) ==
    /\ sv[t].pc = "entered"
    /\ sv' = [sv EXCEPT ![t].pc = "iterating", ![t].used = Len(CACHE)]
    /\ UNCHANGED <<now, ticks, proxy_rotator, fetch, CACHE, CACHE_FILE, fg, pf, rg, lk>>

\* One next() of the iterator and the loop body (main.py:161-165).  The
\* RuntimeError of a dict that changed size is caught at main.py:170: the
\* file is not written.
SaveNext(t) ==
    /\ sv[t].pc = "iterating"
    /\ IF sv[t].used # Len(CACHE)
       THEN /\ sv' = [sv EXCEPT ![t].pc = "over", ![t].failed = TRUE]
            /\ SaveReturns(t, FALSE)
       ELSE IF sv[t].i >= Len(CACHE)
       THEN /\ sv' = [sv EXCEPT ![t].pc = "serialized"]
            /\ UNCHANGED <<fg, pf>>
       ELSE /\ sv' = [sv EXCEPT
                        ![t].i = @ + 1,
                        ![t].serializable_cache =
                            Append(@, save_cache(<<CACHE[sv[t].i + 1]>>)[1].entries[1])]
            /\ UNCHANGED <<fg, pf>>
    /\ UNCHANGED <<now, ticks, proxy_rotator, fetch, CACHE, CACHE_FILE, rg, lk>>

\* open(CACHE_FILE, 'w') (main.py:167): the file is empty now.
SaveOpen(t) ==
    /\ sv[t].pc = "serialized"
    /\ CACHE_FILE' = Some([json |-> "empty", entries |-> <<>>])
    /\ sv' = [sv EXCEPT ![t].pc = "writing",
                        ![OtherThread(t)].overlapped =
                            @ \/ sv[OtherThread(t)].pc = "writing"]
    /\ UNCHANGED <<now, ticks, proxy_rotator, fetch, CACHE, fg, pf, rg, lk>>

\* json.dump and the end of the with block (main.py:168).
SaveClose(t) ==
    /\ sv[t].pc = "writing"
    /\ \E text \in {[json |-> "object", entries |-> sv[t].serializable_cache]} \cup
                   IF sv[t].overlapped
                   THEN {[json |-> "invalid", entries |-> <<>>]} ELSE {} :
          CACHE_FILE' = Some(text)
    /\ sv' = [sv EXCEPT ![t].pc = "over",
                        ![OtherThread(t)].overlapped =
                            @ \/ sv[OtherThread(t)].pc = "writing"]
    /\ SaveReturns(t, TRUE)
    /\ UNCHANGED <<now, ticks, proxy_rotator, fetch, CACHE, rg, lk>>

\* One request that misses the cache beside one cycle of the prefetch
\* thread.
NextPersist ==
    \/ \E date \in {None, Some(strftime(1))}, period \in {"today", "week"} :
          /\ sv.fg.pc = "idle"
          /\ Request(date, None, None, period, None, "all")
    \/ /\ fg.pc = "scraping"
       /\ \E te \in {None, Some(TEPage(fg.effective_from, fg.effective_to))} :
             LivePut(te)
    \/ /\ now >= pf.wake
       /\ sv.pf.pc = "idle"
       /\ \E te \in {None, Some(TEPage(strftime(Today(now) - 7),
                                       strftime(Today(now) + 30)))} :
             PrefetchScrape(te)
    \/ PrefetchPut
    \/ PrefetchSaveEnter
    \/ \E t \in Threads : SaveIter(t)
    \/ \E t \in Threads : SaveNext(t)
    \/ \E t \in Threads : SaveOpen(t)
    \/ \E t \in Threads : SaveClose(t)

SpecPersist == InitThreads /\ [][NextPersist]_vars

\* C37: however a foreground put-and-save and a prefetch put-and-save
\* interleave, once both are over the file holds the serialization of the
\* whole of CACHE as it then is; no save is given up because CACHE changed
\* while it was being serialized, and the two never have the file open for
\* writing at the same time.
C37_FileIsFinalMapAfterBothSaves ==
    /\ (sv.fg.pc = "over" /\ sv.pf.pc = "over") => CACHE_FILE = save_cache(CACHE)
    /\ ~sv.fg.failed /\ ~sv.pf.failed
    /\ ~(sv.fg.pc = "writing" /\ sv.pf.pc = "writing")

(***************************************************************************)
(* GET /calendar/navigate (main.py:757-795): SpecNavigate.                  *)
(* The whole body is inside try ... except Exception, which turns whatever *)
(* is raised in it, HTTPException included, into an HTTPException of       *)
(* status 500.  rg.nav holds the year and month of the request; the range  *)
(* is fetched by calling get_calendar_range.                               *)
(***************************************************************************)
\* 'except Exception' of navigate_calendar (main.py:794): HTTPException is
\* an Exception.
NavigateCatches(exc) == TRUE

\* last_day (main.py:768-773): the day before the first of the next month.
LastDayOfMonth(year, month) ==
    IF month \in {4, 6, 9, 11} THEN 30
    ELSE IF month # 2 THEN 31
    ELSE IF year % 4 = 0 /\ (year % 100 # 0 \/ year % 400 = 0) THEN 29
    ELSE 28

\* navigate_calendar up to the first scraper call of get_calendar_range.
NavigateStart(year, month, country) ==
    /\ rg.pc = "idle"
    /\ LET nav == Some([year |-> year, month |-> month])
           raised == IF month < 1 \/ month > 12 THEN Some(400)
                     ELSE RangeCheck(<<year, month, 1>>,
                                     <<year, month, LastDayOfMonth(year, month)>>)
       IN  IF raised # None
           THEN rg' = [RgInit EXCEPT
                          !.pc = "responded", !.nav = nav,
                          !.error = IF NavigateCatches("HTTPException")
                                    THEN Some(500) ELSE raised]
           ELSE rg' = [RgInit EXCEPT
                          !.pc = "scraping", !.nav = nav,
                          !.start_date = <<year, month, 1>>,
                          !.end_date = <<year, month, LastDayOfMonth(year, month)>>,
                          !.country = country]
    /\ UNCHANGED <<now, ticks, proxy_rotator, fetch, CACHE, CACHE_FILE, fg, pf, lk, sv>>

NextNavigate ==
    \/ \E month \in {0, 1, 13}, country \in {None, Some("us")} :
          NavigateStart(2026, month, country)
    \/ /\ rg.pc = "scraping"
       /\ \E response \in SourceResponses(BroadSources[Len(rg.queried) + 1],
                                           rg.start_date, rg.end_date, now) :
             RangeScrape(response)
    \/ RangeRespond

SpecNavigate == Init /\ [][NextNavigate]_vars

\* C38: a /calendar/navigate request whose month is outside 1..12 is
\* answered with status 400 and no source is asked.
C38_BadMonthAnswered400 ==
    (rg.nav # None /\ rg.nav[1].month \notin 1..12) =>
        /\ rg.pc = "responded"
        /\ rg.error = Some(400)
        /\ rg.queried = <<>>
====
